---- MODULE Spec2Model ----
(***************************************************************************)
(* A model of the go-fed/syrup codec: the prototype encoding policy, the   *)
(* byte-at-a-time scanner, the Encoder and the recursive Decoder.          *)
(*                                                                         *)
(* Bytes are numbers 0..255.  A Go string or []byte is a sequence of       *)
(* bytes.  64-bit quantities (int64, uint64, *big.Int) are kept as         *)
(* canonical sequences of decimal digits 0..9 with a sign flag, so that    *)
(* their width is exact.                                                   *)
(***************************************************************************)
EXTENDS Integers, Sequences, FiniteSets, TLC

(***************************************************************************)
(* Bytes of the prototype syntax.                                          *)
(***************************************************************************)
chQuote  == 34
chHash   == 35
chDollar == 36
chApos   == 39
chMinus  == 45
ch0      == 48
chColon  == 58
chLt     == 60
chGt     == 62
chBigD   == 68
chBigF   == 70
chLBrack == 91
chRBrack == 93
chE      == 101
chF      == 102
chI      == 105
chT      == 116
chLBrace == 123
chRBrace == 125

IsDigit(b) == b \in ch0 .. (ch0 + 9)

\* unicode.IsSpace on a rune below 0x100
IsSpace_Blank(b) == b = 32
IsSpace(b) == b \in {9, 10, 11, 12, 13, 32, 133, 160}

(***************************************************************************)
(* Decimal numbers as sequences of digits, most significant first.         *)
(* Canonical: no leading zero, zero is <<0>>.                              *)
(***************************************************************************)
RECURSIVE StripZeros(_)
StripZeros(d) ==
  IF Len(d) > 1 /\ Head(d) = 0 THEN StripZeros(Tail(d)) ELSE d

RECURSIVE DecCmpSameLen(_, _)
DecCmpSameLen(a, b) ==
  IF a = <<>> THEN 0
  ELSE IF Head(a) < Head(b) THEN -1
  ELSE IF Head(a) > Head(b) THEN 1
  ELSE DecCmpSameLen(Tail(a), Tail(b))

\* compare two canonical decimals: -1, 0, 1
DecCmp(a, b) ==
  IF Len(a) < Len(b) THEN -1
  ELSE IF Len(a) > Len(b) THEN 1
  ELSE DecCmpSameLen(a, b)

Front(d) == SubSeq(d, 1, Len(d) - 1)
Last(d)  == d[Len(d)]

RECURSIVE DecPredRaw(_)
DecPredRaw(d) ==
  IF Last(d) > 0 THEN Append(Front(d), Last(d) - 1)
  ELSE Append(DecPredRaw(Front(d)), 9)

\* d - 1 for a canonical d > 0
DecPred(d) == StripZeros(DecPredRaw(d))

RECURSIVE DecSuccRaw(_)
DecSuccRaw(d) ==
  IF d = <<>> THEN <<1>>
  ELSE IF Last(d) < 9 THEN Append(Front(d), Last(d) + 1)
  ELSE Append(DecSuccRaw(Front(d)), 0)

\* d + 1
DecSucc(d) == DecSuccRaw(d)

RECURSIVE NatToDec(_)
NatToDec(n) ==
  IF n < 10 THEN <<n>> ELSE Append(NatToDec(n \div 10), n % 10)

DigitsToBytes(d) == [k \in 1 .. Len(d) |-> ch0 + d[k]]
BytesToDigits(s) == [k \in 1 .. Len(s) |-> s[k] - ch0]

\* 1<<63 - 1, 1<<63 and 1<<64 - 1
MaxInt64Dec  == <<9,2,2,3,3,7,2,0,3,6,8,5,4,7,7,5,8,0,7>>
MinInt64Mag  == <<9,2,2,3,3,7,2,0,3,6,8,5,4,7,7,5,8,0,8>>
MaxUint64Dec == <<1,8,4,4,6,7,4,4,0,7,3,7,0,9,5,5,1,6,1,5>>

(***************************************************************************)
(* Errors.  NilErr is Go's nil error.                                      *)
(***************************************************************************)
Err(kind, value, type, offset) ==
  [kind |-> kind, value |-> value, type |-> type, offset |-> offset]
NilErr == Err("nil", "", "", 0)
EOFErr == Err("io.EOF", "", "", 0)
ErrorsNew(msg) == Err("error", msg, "", 0)
InvalidTypeError(value, type, offset) == Err("InvalidTypeError", value, type, offset)
InvalidDecodeError(type) == Err("InvalidDecodeError", "", type, 0)

(***************************************************************************)
(* strconv                                                                 *)
(***************************************************************************)
\* strconv.FormatInt(int64(n), 10) for a length n >= 0
FormatLen(n) == DigitsToBytes(NatToDec(n))

\* strconv.ParseUint(s, 10, 64): [v, err] with err in {"nil","syntax","range"}
ParseUint(s) ==
  IF s = <<>> \/ \E k \in 1 .. Len(s) : ~IsDigit(s[k])
  THEN [v |-> <<0>>, err |-> "syntax"]
  ELSE LET d == StripZeros(BytesToDigits(s)) IN
       IF DecCmp(d, MaxUint64Dec) > 0
       THEN [v |-> MaxUint64Dec, err |-> "range"]
       ELSE [v |-> d, err |-> "nil"]

\* strconv.ParseInt(s, 10, 64): [neg, v, err]; v is the magnitude
ParseInt(s) ==
  IF s = <<>> THEN [neg |-> FALSE, v |-> <<0>>, err |-> "syntax"]
  ELSE
    LET signed == Head(s) \in {43, chMinus}
        neg    == Head(s) = chMinus
        u      == ParseUint(IF signed THEN Tail(s) ELSE s)
    IN  IF u.err = "syntax" THEN [neg |-> FALSE, v |-> <<0>>, err |-> "syntax"]
        ELSE IF ~neg /\ DecCmp(u.v, MaxInt64Dec) > 0
          THEN [neg |-> FALSE, v |-> MaxInt64Dec, err |-> "range"]
        ELSE IF neg /\ DecCmp(u.v, MinInt64Mag) > 0
          THEN [neg |-> TRUE, v |-> MinInt64Mag, err |-> "range"]
        ELSE [neg |-> neg /\ u.v # <<0>>, v |-> u.v, err |-> "nil"]

\* strconv.FormatInt(i, 10) of a signed value (neg, magnitude)
FormatInt(neg, mag) ==
  (IF neg THEN <<chMinus>> ELSE <<>>) \o DigitsToBytes(mag)

(***************************************************************************)
(* Prototype encoding: scan functions (byte -> next state, op, include,    *)
(* error).                                                                 *)
(***************************************************************************)
ScanStates ==
  {"scanFindToken", "scanTokenLen", "scanString", "scanFirstInt", "scanInt",
   "scanFloat64", "scanFloat32", "scanSymbol", "scanByteArr"}

ValOps   == {"valBoolop", "valByteArrOp", "valSymbolOp", "valStringOp",
             "valIntOp", "valFloat32Op", "valFloat64Op"}
OpenOps  == {"openListOp", "openDictOp", "openSetOp", "openRecordOp"}
CloseOps == {"closeListOp", "closeDictOp", "closeSetOp", "closeRecordOp"}
Ops      == {"noop"} \cup ValOps \cup OpenOps \cup CloseOps

ScanRes(next, oper, include, err) ==
  [next |-> next, oper |-> oper, include |-> include, err |-> err]

syrupProtoMustFindToken(b) ==
  IF IsSpace(b) THEN ScanRes("scanFindToken", "noop", FALSE, NilErr)
  ELSE IF IsDigit(b) THEN ScanRes("scanTokenLen", "noop", TRUE, NilErr)
  ELSE IF b = chI THEN ScanRes("scanFirstInt", "noop", FALSE, NilErr)
  ELSE IF b \in {chT, chF} THEN ScanRes("scanFindToken", "valBoolop", TRUE, NilErr)
  ELSE IF b = chBigF THEN ScanRes("scanFloat32", "noop", FALSE, NilErr)
  ELSE IF b = chBigD THEN ScanRes("scanFloat64", "noop", FALSE, NilErr)
  ELSE IF b = chLBrack THEN ScanRes("scanFindToken", "openListOp", FALSE, NilErr)
  ELSE IF b = chLBrace THEN ScanRes("scanFindToken", "openDictOp", FALSE, NilErr)
  ELSE IF b = chHash THEN ScanRes("scanFindToken", "openSetOp", FALSE, NilErr)
  ELSE IF b = chLt THEN ScanRes("scanFindToken", "openRecordOp", FALSE, NilErr)
  ELSE IF b = chRBrack THEN ScanRes("scanFindToken", "closeListOp", FALSE, NilErr)
  ELSE IF b = chRBrace THEN ScanRes("scanFindToken", "closeDictOp", FALSE, NilErr)
  ELSE IF b = chDollar THEN ScanRes("scanFindToken", "closeSetOp", FALSE, NilErr)
  ELSE IF b = chGt THEN ScanRes("scanFindToken", "closeRecordOp", FALSE, NilErr)
  ELSE ScanRes("scanFindToken", "noop", FALSE,
               ErrorsNew("could not determine token for byte"))

syrupProtoScanTokenLen(b) ==
  IF IsDigit(b) THEN ScanRes("scanTokenLen", "noop", TRUE, NilErr)
  ELSE IF b = chApos THEN ScanRes("scanSymbol", "noop", FALSE, NilErr)
  ELSE IF b = chQuote THEN ScanRes("scanString", "noop", FALSE, NilErr)
  ELSE IF b = chColon THEN ScanRes("scanByteArr", "noop", FALSE, NilErr)
  ELSE ScanRes("scanFindToken", "noop", FALSE,
               ErrorsNew("malformed input during len scanning"))

\* a first-digit scan that takes no minus sign
syrupProtoScanFirstIntToken_NoMinus(b) ==
  IF IsDigit(b) THEN ScanRes("scanInt", "noop", TRUE, NilErr)
  ELSE IF b = chE THEN ScanRes("scanFindToken", "valIntOp", FALSE, NilErr)
  ELSE ScanRes("scanFindToken", "noop", FALSE,
               ErrorsNew("malformed input during int scanning"))

syrupProtoScanFirstIntToken(b) ==
  IF b = chMinus \/ IsDigit(b) THEN ScanRes("scanInt", "noop", TRUE, NilErr)
  ELSE IF b = chE THEN ScanRes("scanFindToken", "valIntOp", FALSE, NilErr)
  ELSE ScanRes("scanFindToken", "noop", FALSE,
               ErrorsNew("malformed input during int scanning"))

syrupProtoScanIntToken(b) ==
  IF IsDigit(b) THEN ScanRes("scanInt", "noop", TRUE, NilErr)
  ELSE IF b = chE THEN ScanRes("scanFindToken", "valIntOp", FALSE, NilErr)
  ELSE ScanRes("scanFindToken", "noop", FALSE,
               ErrorsNew("malformed input during int scanning"))

syrupProtoScanFloat32Token(n) ==
  IF n = 0 THEN ScanRes("scanFindToken", "valFloat32Op", TRUE, NilErr)
  ELSE ScanRes("scanFloat32", "noop", TRUE, NilErr)

syrupProtoScanFloat64Token(n) ==
  IF n = 0 THEN ScanRes("scanFindToken", "valFloat64Op", TRUE, NilErr)
  ELSE ScanRes("scanFloat64", "noop", TRUE, NilErr)

\* parseLen: [do, l, err]
syrupProtoParsedLen(s, next) ==
  LET p == ParseUint(s) IN
  IF p.err # "nil"
  THEN [do |-> "noop", l |-> p.v, err |-> ErrorsNew("strconv.ParseUint")]
  ELSE IF p.v = <<0>> THEN
    IF next = "scanSymbol" THEN [do |-> "valSymbolOp", l |-> p.v, err |-> NilErr]
    ELSE IF next = "scanString" THEN [do |-> "valStringOp", l |-> p.v, err |-> NilErr]
    ELSE IF next = "scanByteArr" THEN [do |-> "valByteArrOp", l |-> p.v, err |-> NilErr]
    ELSE [do |-> "noop", l |-> p.v, err |-> ErrorsNew("syrup len parsing bad state")]
  ELSE [do |-> "noop", l |-> p.v, err |-> NilErr]

(***************************************************************************)
(* The closures NewPrototypeEncoding installs.  They read and write the    *)
(* Encoding's float countdown e.nlen, passed and returned as nlen.         *)
(***************************************************************************)
EncRes(r, nlen) == [r |-> r, nlen |-> nlen]

mustFindToken_Keep(b, nlen) == EncRes(syrupProtoMustFindToken(b), nlen)
mustFindToken(b, nlen) ==
  LET r == syrupProtoMustFindToken(b) IN
  EncRes(r, IF r.next = "scanFloat32" THEN 4
            ELSE IF r.next = "scanFloat64" THEN 8 ELSE nlen)

scanFloat64Token(b, nlen) ==
  IF nlen = 0
  THEN EncRes(ScanRes("scanFindToken", "noop", FALSE,
                      ErrorsNew("missing float64 syrup delimiter")), nlen)
  ELSE EncRes(syrupProtoScanFloat64Token(nlen - 1), nlen - 1)

scanFloat32Token(b, nlen) ==
  IF nlen = 0
  THEN EncRes(ScanRes("scanFindToken", "noop", FALSE,
                      ErrorsNew("missing float32 syrup delimiter")), nlen)
  ELSE EncRes(syrupProtoScanFloat32Token(nlen - 1), nlen - 1)

(***************************************************************************)
(* The scanner: sc = [s, buf, nlen]; nlen is a uint64 in decimal.          *)
(***************************************************************************)
NewScanner == [s |-> "scanFindToken", buf |-> <<>>, nlen |-> <<0>>]

\* s.nlen-- on a uint64
DecU64(d) == IF d = <<0>> THEN MaxUint64Dec ELSE DecPred(d)

\* [r: ScanRes, nlen: s.nlen after the decrement]
processLengthDeterminedType_First(sc, maybeOp) ==
  [r |-> ScanRes("scanFindToken", maybeOp, TRUE, NilErr), nlen |-> <<0>>]
processLengthDeterminedType(sc, maybeOp) ==
  LET n == DecU64(sc.nlen) IN
  [r |-> IF n = <<0>> THEN ScanRes("scanFindToken", maybeOp, TRUE, NilErr)
         ELSE ScanRes(sc.s, "noop", TRUE, NilErr),
   nlen |-> n]

\* [oper, err, sc]: the buffer is parsed as the length, then reset
processParsedLen(sc, next) ==
  LET p == syrupProtoParsedLen(sc.buf, next) IN
  [oper |-> p.do, err |-> p.err, sc |-> [sc EXCEPT !.nlen = p.l, !.buf = <<>>]]

\* Process(b): [oper, err, sc, enlen] with sc the scanner and enlen the
\* Encoding's countdown afterwards
Process(sc, enlen, b) ==
  LET \* 1. state transition
      d == IF sc.s = "scanFindToken" THEN mustFindToken(b, enlen)
           ELSE IF sc.s = "scanTokenLen" THEN EncRes(syrupProtoScanTokenLen(b), enlen)
           ELSE IF sc.s = "scanSymbol"
             THEN EncRes(processLengthDeterminedType(sc, "valSymbolOp").r, enlen)
           ELSE IF sc.s = "scanString"
             THEN EncRes(processLengthDeterminedType(sc, "valStringOp").r, enlen)
           ELSE IF sc.s = "scanByteArr"
             THEN EncRes(processLengthDeterminedType(sc, "valByteArrOp").r, enlen)
           ELSE IF sc.s = "scanInt" THEN EncRes(syrupProtoScanIntToken(b), enlen)
           ELSE IF sc.s = "scanFirstInt"
             THEN EncRes(syrupProtoScanFirstIntToken(b), enlen)
           ELSE IF sc.s = "scanFloat64" THEN scanFloat64Token(b, enlen)
           ELSE IF sc.s = "scanFloat32" THEN scanFloat32Token(b, enlen)
           ELSE EncRes(ScanRes(sc.s, "noop", FALSE,
                               ErrorsNew("syrup unknown scanstate")), enlen)
      sc1 == IF sc.s \in {"scanSymbol", "scanString", "scanByteArr"}
             THEN [sc EXCEPT !.nlen = processLengthDeterminedType(sc, "noop").nlen]
             ELSE sc
      r == d.r
      \* 2. include the byte
      sc2 == IF r.include THEN [sc1 EXCEPT !.buf = Append(sc1.buf, b)] ELSE sc1
      \* 3. a token length has been read
      handoff == sc.s = "scanTokenLen" /\ r.next # "scanTokenLen"
      pl == processParsedLen(sc2, r.next)
  IN  IF r.err # NilErr
      THEN [oper |-> r.oper, err |-> r.err, sc |-> sc1, enlen |-> d.nlen]
      ELSE IF handoff /\ pl.err # NilErr
      THEN [oper |-> pl.oper, err |-> pl.err, sc |-> pl.sc, enlen |-> d.nlen]
      \* 4. transition to the next state
      ELSE IF handoff
      THEN [oper |-> pl.oper, err |-> NilErr,
            sc |-> [pl.sc EXCEPT !.s = r.next], enlen |-> d.nlen]
      ELSE [oper |-> r.oper, err |-> NilErr,
            sc |-> [sc2 EXCEPT !.s = r.next], enlen |-> d.nlen]

(***************************************************************************)
(* Go types, by name, and reflect's view of them.                          *)
(***************************************************************************)
IntTypes   == {"int8", "int16", "int32", "int64"}
UintTypes  == {"uint8", "uint16", "uint32", "uint64"}
FloatTypes == {"float32", "float64"}
SliceTypes == {"[]byte", "[]string", "[]int64", "[]interface{}", "Set"}
ArrayTypes == {"[1]int64", "[2]int64", "[2]string", "[2][1]int64"}
MapTypes   == {"map[string]int64", "map[interface{}]interface{}", "map[int64]string"}
StructTypes == {"Record", "Struct1", "Struct2", "Tagged"}

\* reflect.Type.Kind()
Kind(t) ==
  IF t \in {"string", "Symbol"} THEN "String"
  ELSE IF t = "bool" THEN "Bool"
  ELSE IF t = "int8" THEN "Int8"
  ELSE IF t = "int16" THEN "Int16"
  ELSE IF t = "int32" THEN "Int32"
  ELSE IF t = "int64" THEN "Int64"
  ELSE IF t = "uint8" THEN "Uint8"
  ELSE IF t = "uint16" THEN "Uint16"
  ELSE IF t = "uint32" THEN "Uint32"
  ELSE IF t = "uint64" THEN "Uint64"
  ELSE IF t = "float32" THEN "Float32"
  ELSE IF t = "float64" THEN "Float64"
  ELSE IF t \in SliceTypes THEN "Slice"
  ELSE IF t \in ArrayTypes THEN "Array"
  ELSE IF t \in MapTypes THEN "Map"
  ELSE IF t \in StructTypes THEN "Struct"
  ELSE IF t = "interface{}" THEN "Interface"
  ELSE IF t \in {"*big.Int", "*", "*interface{}"} THEN "Ptr"
  ELSE "Invalid"

\* reflect.Type.Elem()
ElemT(t) ==
  IF t = "[]byte" THEN "uint8"
  ELSE IF t \in {"[]string", "[2]string", "map[int64]string"} THEN "string"
  ELSE IF t \in {"[]int64", "[1]int64", "[2]int64", "map[string]int64"} THEN "int64"
  ELSE IF t = "[2][1]int64" THEN "[1]int64"
  ELSE "interface{}"

\* reflect.Type.Key()
KeyT(t) ==
  IF t = "map[string]int64" THEN "string"
  ELSE IF t = "map[int64]string" THEN "int64"
  ELSE "interface{}"

\* reflect.Type.Len() of an array type
ArrLen(t) == IF t = "[1]int64" THEN 1 ELSE 2

\* reflect.StructField: Name, PkgPath == "" (exported), Tag.Lookup("syrup"), Type
Field(name, exported, hasTag, tag, type) ==
  [name |-> name, exported |-> exported, hasTag |-> hasTag, tag |-> tag, type |-> type]

\* type Record struct { Label interface{}; Values []interface{} }
\* type Struct1 struct { I int64; f float32; Str string }
\* type Struct2 struct { S1 *Struct1; sUnexp *Struct1 }
\* type Tagged struct { A int64 `syrup:"x"`; B string }
StructFields(t) ==
  IF t = "Record"
  THEN << Field(<<76,97,98,101,108>>, TRUE, FALSE, <<>>, "interface{}"),
          Field(<<86,97,108,117,101,115>>, TRUE, FALSE, <<>>, "[]interface{}") >>
  ELSE IF t = "Struct1"
  THEN << Field(<<73>>, TRUE, FALSE, <<>>, "int64"),
          Field(<<102>>, FALSE, FALSE, <<>>, "float32"),
          Field(<<83,116,114>>, TRUE, FALSE, <<>>, "string") >>
  ELSE IF t = "Struct2"
  THEN << Field(<<83,49>>, TRUE, FALSE, <<>>, "*"),
          Field(<<115,85,110,101,120,112>>, FALSE, FALSE, <<>>, "*") >>
  ELSE IF t = "Tagged"
  THEN << Field(<<65>>, TRUE, TRUE, <<120>>, "int64"),
          Field(<<66>>, TRUE, FALSE, <<>>, "string") >>
  ELSE << >>

(***************************************************************************)
(* Go values.  t is the dynamic type; a nil interface has t = "nil".       *)
(*   b: a bool's value, an integer's sign (TRUE: negative), IsNil of a     *)
(*      slice or map                                                       *)
(*   s: the bytes of a string, Symbol, []byte; the bit pattern of a float, *)
(*      big-endian; the decimal magnitude of an integer                    *)
(*   e: the elements of a slice or array, the fields of a struct, the      *)
(*      entries <<key, value>> of a map                                    *)
(*   c: the capacity of a slice                                            *)
(***************************************************************************)
V(t, b, s, e, c) == [t |-> t, b |-> b, s |-> s, e |-> e, c |-> c]

NilIface       == V("nil", FALSE, <<>>, <<>>, 0)
VBool(x)       == V("bool", x, <<>>, <<>>, 0)
VInt(t, neg, mag) == V(t, neg, mag, <<>>, 0)
VStr(t, s)     == V(t, FALSE, s, <<>>, 0)
VBytes(s)      == V("[]byte", FALSE, s, <<>>, Len(s))
VFloat(t, bits) == V(t, FALSE, bits, <<>>, 0)
VSlice(t, e, c) == V(t, FALSE, <<>>, e, c)
VNilSlice(t)   == V(t, TRUE, <<>>, <<>>, 0)
VArray(t, e)   == V(t, FALSE, <<>>, e, 0)
VStruct(t, e)  == V(t, FALSE, <<>>, e, 0)
VMap(t, e)     == V(t, FALSE, <<>>, e, 0)
VNilMap(t)     == V(t, TRUE, <<>>, <<>>, 0)
VEntry(k, v)   == V("entry", FALSE, <<>>, <<k, v>>, 0)
VRecord(label, values) == VStruct("Record", <<label, values>>)
\* a pointer of any type but *big.Int: to a variable holding v (for a
\* pointer to an interface, v is the value the interface holds), or nil
VPtr(v)        == V("*", FALSE, <<>>, <<v>>, 0)
VNilPtr        == V("*", TRUE, <<>>, <<>>, 0)
\* a pointer to a variable of type interface{} that holds v
VPtrToInterface(v) == V("*interface{}", FALSE, <<>>, <<v>>, 0)

\* reflect.Zero(t)
RECURSIVE Zero(_)
Zero(t) ==
  IF t = "interface{}" THEN NilIface
  ELSE IF Kind(t) = "Bool" THEN VBool(FALSE)
  ELSE IF Kind(t) = "String" THEN VStr(t, <<>>)
  ELSE IF t \in IntTypes \cup UintTypes THEN VInt(t, FALSE, <<0>>)
  ELSE IF t = "float32" THEN VFloat(t, <<0, 0, 0, 0>>)
  ELSE IF t = "float64" THEN VFloat(t, <<0, 0, 0, 0, 0, 0, 0, 0>>)
  ELSE IF Kind(t) = "Slice" THEN VNilSlice(t)
  ELSE IF Kind(t) = "Map" THEN VNilMap(t)
  ELSE IF t = "*" THEN VNilPtr
  ELSE IF Kind(t) = "Array" THEN VArray(t, [k \in 1 .. ArrLen(t) |-> Zero(ElemT(t))])
  ELSE IF Kind(t) = "Struct"
    THEN VStruct(t, [k \in 1 .. Len(StructFields(t)) |-> Zero(StructFields(t)[k].type)])
  ELSE NilIface

(***************************************************************************)
(* Prototype encoding: format functions.                                   *)
(***************************************************************************)
syrupProtoString(s) == FormatLen(Len(s)) \o <<chQuote>> \o s
syrupProtoSymbol(s) == FormatLen(Len(s)) \o <<chApos>> \o s
syrupProtoBytes(s)  == FormatLen(Len(s)) \o <<chColon>> \o s
syrupProtoInt(neg, mag) == <<chI>> \o FormatInt(neg, mag) \o <<chE>>
syrupProtoUint(mag)     == <<chI>> \o DigitsToBytes(mag) \o <<chE>>
syrupProtoBigInt(neg, mag) == <<chI>> \o FormatInt(neg, mag) \o <<chE>>
syrupProtoBool(b)   == IF b THEN <<chT>> ELSE <<chF>>
syrupProtoFloat64(bits) == <<chBigD>> \o bits
syrupProtoFloat32(bits) == <<chBigF>> \o bits
syrupProtoListOpen    == <<chLBrack>>
syrupProtoListClose   == <<chRBrack>>
syrupProtoDictOpen    == <<chLBrace>>
syrupProtoDictClose   == <<chRBrace>>
syrupProtoSetOpen     == <<chHash>>
syrupProtoSetClose    == <<chDollar>>
syrupProtoRecordOpen  == <<chLt>>
syrupProtoRecordClose == <<chGt>>

(***************************************************************************)
(* The io.Writer of an Encoder.  out: the bytes it has taken; log: its     *)
(* Write calls, oldest first.  Write number `at` misbehaves (none when     *)
(* at = 0): it returns an error ("err") or takes all bytes but the last    *)
(* and returns no error ("short").                                         *)
(***************************************************************************)
NewWriter(at, mode) == [out |-> <<>>, log |-> <<>>, at |-> at, mode |-> mode]

\* a writer that takes everything
Accepting == NewWriter(0, "err")

\* F of the value of x, x worked out once: the statement  v := x; F(v)
Then(x, F(_)) == CHOOSE y \in {F(v) : v \in {x}} : TRUE

\* w.Write(b): [w, n, err]
Write(writer, b) ==
  Then(writer, LAMBDA w :
    IF w.at = Len(w.log) + 1 /\ w.mode = "err"
    THEN [w |-> [w EXCEPT !.log = Append(@, b)], n |-> 0, err |-> ErrorsNew("write")]
    ELSE IF w.at = Len(w.log) + 1 /\ b # <<>>
    THEN [w |-> [w EXCEPT !.log = Append(@, b),
                          !.out = @ \o SubSeq(b, 1, Len(b) - 1)],
          n |-> Len(b) - 1, err |-> NilErr]
    ELSE [w |-> [w EXCEPT !.log = Append(@, b), !.out = @ \o b],
          n |-> Len(b), err |-> NilErr])

(***************************************************************************)
(* Encoder.Encode: [w, err], w being the writer afterwards.                *)
(***************************************************************************)
EncRet(w, err) == [w |-> w, err |-> err]

\* Encoder.write, were the count of bytes written not looked at
write_NoCount(w, b) ==
  Then(Write(w, b), LAMBDA r : EncRet(r.w, r.err))

\* Encoder.write
write(w, b) ==
  Then(Write(w, b), LAMBDA r :
    IF r.err # NilErr THEN EncRet(r.w, r.err)
    ELSE IF r.n # Len(b) THEN EncRet(r.w, ErrorsNew("wrote n of len bytes"))
    ELSE EncRet(r.w, NilErr))

RECURSIVE EncodeTo(_, _)
RECURSIVE EncodeAll(_, _)

\* Encode of each value of a sequence in turn, stopping at the first error
EncodeAll(vs, w) ==
  IF vs = <<>> THEN EncRet(w, NilErr)
  ELSE Then(EncodeTo(Head(vs), w), LAMBDA h :
         IF h.err # NilErr THEN h ELSE EncodeAll(Tail(vs), h.w))

\* the name and value of each exported field, in declaration order
StructEntries(v) ==
  LET fs == StructFields(v.t)
      RECURSIVE walk(_)
      walk(i) ==
        IF i > Len(fs) THEN <<>>
        ELSE IF ~fs[i].exported THEN walk(i + 1)
        ELSE << VStr("string", IF fs[i].hasTag THEN fs[i].tag ELSE fs[i].name),
                v.e[i] >> \o walk(i + 1)
  IN walk(1)

\* the key and value of each entry of a map, in the order of v.e
MapEntries(v) ==
  LET RECURSIVE walk(_)
      walk(i) == IF i > Len(v.e) THEN <<>>
                 ELSE << v.e[i].e[1], v.e[i].e[2] >> \o walk(i + 1)
  IN walk(1)

\* Bracketed, were every composite closed as a list is
Bracketed_ListClose(open, vs, close, w) ==
  Then(write(w, open), LAMBDA o :
    IF o.err # NilErr THEN o
    ELSE Then(EncodeAll(vs, o.w), LAMBDA r :
           IF r.err # NilErr THEN r ELSE write(r.w, syrupProtoListClose)))

\* the open marker, the values, the close marker
Bracketed(open, vs, close, w) ==
  Then(write(w, open), LAMBDA o :
    IF o.err # NilErr THEN o
    ELSE Then(EncodeAll(vs, o.w), LAMBDA r :
           IF r.err # NilErr THEN r ELSE write(r.w, close)))

\* Encode, case reflect.Ptr, were a pointer followed one level only
EncodePtr_OneLevel(v, w) ==
  IF v.t = "*big.Int" THEN write(w, syrupProtoBigInt(v.b, v.s))
  ELSE IF v.b THEN EncRet(w, ErrorsNew("cannot encode nil pointer"))
  ELSE IF Kind(v.e[1].t) = "Ptr" /\ v.e[1].t # "*big.Int"
  THEN EncRet(w, ErrorsNew("unknown type"))
  ELSE EncodeTo(v.e[1], w)

\* Encode, case reflect.Ptr
EncodePtr(v, w) ==
  \* a *big.Int of the model is never nil: VNilPtr stands for the nil
  \* pointers of every type
  IF v.t = "*big.Int" THEN write(w, syrupProtoBigInt(v.b, v.s))
  ELSE IF v.b THEN EncRet(w, ErrorsNew("cannot encode nil pointer"))
  ELSE EncodeTo(v.e[1], w)

EncodeTo(v, w) ==
  LET k == Kind(v.t) IN
  IF k = "String" THEN
    IF v.t = "Symbol" THEN write(w, syrupProtoSymbol(v.s))
    ELSE write(w, syrupProtoString(v.s))
  ELSE IF v.t \in IntTypes THEN write(w, syrupProtoInt(v.b, v.s))
  ELSE IF v.t \in UintTypes THEN write(w, syrupProtoUint(v.s))
  ELSE IF k = "Bool" THEN write(w, syrupProtoBool(v.b))
  ELSE IF k = "Float32" THEN write(w, syrupProtoFloat32(v.s))
  ELSE IF k = "Float64" THEN write(w, syrupProtoFloat64(v.s))
  ELSE IF k = "Slice" THEN
    IF v.b THEN EncRet(w, ErrorsNew("cannot encode nil pointer"))
    ELSE IF v.t = "[]byte" THEN write(w, syrupProtoBytes(v.s))
    ELSE IF v.t = "Set" THEN Bracketed(syrupProtoSetOpen, v.e, syrupProtoSetClose, w)
    ELSE Bracketed(syrupProtoListOpen, v.e, syrupProtoListClose, w)
  ELSE IF k = "Ptr" THEN EncodePtr(v, w)
  ELSE IF k = "Map" THEN
    IF v.b THEN EncRet(w, ErrorsNew("cannot encode nil pointer"))
    ELSE Bracketed(syrupProtoDictOpen, MapEntries(v), syrupProtoDictClose, w)
  ELSE IF k = "Struct" THEN
    IF v.t = "Record"
    THEN Bracketed(syrupProtoRecordOpen, <<v.e[1]>> \o v.e[2].e, syrupProtoRecordClose, w)
    ELSE Bracketed(syrupProtoDictOpen, StructEntries(v), syrupProtoDictClose, w)
  ELSE EncRet(w, ErrorsNew("unknown type"))

\* Encode on a writer that takes everything: the bytes written, also those
\* written before an error, and the error
EncOut(out, err) == [out |-> out, err |-> err]
Encode(v) == Then(EncodeTo(v, Accepting), LAMBDA r : EncOut(r.w.out, r.err))

(***************************************************************************)
(* More decimal arithmetic, for uint64(i) of a negative int64.             *)
(***************************************************************************)
RECURSIVE PadZeros(_, _)
PadZeros(d, n) == IF Len(d) >= n THEN d ELSE PadZeros(<<0>> \o d, n)

RECURSIVE DecSubRaw(_, _, _)
DecSubRaw(a, b, borrow) ==
  IF a = <<>> THEN <<>>
  ELSE LET x == Last(a) - Last(b) - borrow IN
       IF x < 0 THEN Append(DecSubRaw(Front(a), Front(b), 1), x + 10)
       ELSE Append(DecSubRaw(Front(a), Front(b), 0), x)

\* a - b for canonical a >= b
DecSub(a, b) == StripZeros(DecSubRaw(a, PadZeros(b, Len(a)), 0))

RECURSIVE DecToNat(_)
DecToNat(d) == IF d = <<>> THEN 0 ELSE DecToNat(Front(d)) * 10 + Last(d)

\* uint64(i) for the int64 (neg, mag): two's complement wrap-around
Uint64OfInt64(neg, mag) ==
  IF neg THEN DecSucc(DecSub(MaxUint64Dec, mag)) ELSE mag

(***************************************************************************)
(* Value accessors of the encoding, on the scanner's buffer.               *)
(***************************************************************************)
Acc(v, err) == [v |-> v, err |-> err]

syrupProtoBoolVal(b) ==
  IF Len(b) # 1 THEN Acc(VBool(FALSE), ErrorsNew("syrup bool val len"))
  ELSE IF b[1] = chT THEN Acc(VBool(TRUE), NilErr)
  ELSE IF b[1] = chF THEN Acc(VBool(FALSE), NilErr)
  ELSE Acc(VBool(FALSE), ErrorsNew("syrup bool unknown value"))

syrupProtoSymbolVal(b) == Acc(VStr("Symbol", b), NilErr)
syrupProtoStringVal(b) == Acc(VStr("string", b), NilErr)

\* big.Int.SetString(s, 10) of a string strconv found syntactically valid
BigSetString(s) ==
  LET signed == Head(s) \in {43, chMinus}
      mag == StripZeros(BytesToDigits(IF signed THEN Tail(s) ELSE s))
  IN VInt("*big.Int", Head(s) = chMinus /\ mag # <<0>>, mag)

\* an accessor that keeps the clamped int64 of a range error
syrupProtoInt64Val_Lenient(b) ==
  LET p == ParseInt(b) IN
  IF p.err = "range" THEN Acc(BigSetString(b), NilErr)
  ELSE IF p.err = "syntax" THEN Acc(VInt("int64", FALSE, <<0>>), NilErr)
  ELSE Acc(VInt("int64", p.neg, p.v), NilErr)
syrupProtoInt64Val_NoBig(b) ==
  LET p == ParseInt(b) IN
  IF p.err = "syntax"
    THEN Acc(VInt("int64", FALSE, <<0>>), ErrorsNew("strconv.ParseInt"))
  ELSE Acc(VInt("int64", p.neg, p.v), NilErr)

\* (int64, *big.Int, error): v.t = "*big.Int" when the big integer is set
syrupProtoInt64Val(b) ==
  LET p == ParseInt(b) IN
  IF p.err = "range" THEN Acc(BigSetString(b), NilErr)
  ELSE IF p.err = "syntax"
    THEN Acc(VInt("int64", FALSE, <<0>>), ErrorsNew("strconv.ParseInt"))
  ELSE Acc(VInt("int64", p.neg, p.v), NilErr)

\* binary.BigEndian.Uint32 reads b[0..3], Uint64 reads b[0..7]
syrupProtoFloat32Val(b) ==
  IF Len(b) < 4 THEN Acc(VFloat("float32", <<>>), Err("panic", "index out of range", "", 0))
  ELSE Acc(VFloat("float32", SubSeq(b, 1, 4)), NilErr)

syrupProtoFloat64Val(b) ==
  IF Len(b) < 8 THEN Acc(VFloat("float64", <<>>), Err("panic", "index out of range", "", 0))
  ELSE Acc(VFloat("float64", SubSeq(b, 1, 8)), NilErr)

\* the scanner accessor a value op calls for
Accessor(oper, buf) ==
  IF oper = "valBoolop" THEN syrupProtoBoolVal(buf)
  ELSE IF oper = "valByteArrOp" THEN Acc(VBytes(buf), NilErr)
  ELSE IF oper = "valSymbolOp" THEN syrupProtoSymbolVal(buf)
  ELSE IF oper = "valStringOp" THEN syrupProtoStringVal(buf)
  ELSE IF oper = "valIntOp" THEN syrupProtoInt64Val(buf)
  ELSE IF oper = "valFloat32Op" THEN syrupProtoFloat32Val(buf)
  ELSE syrupProtoFloat64Val(buf)

(***************************************************************************)
(* Decoder.store*: tt is the type of the destination, n is d.n.            *)
(* The result is [v, err]; v is the destination's new value.               *)
(* A float destination keeps the bit pattern it was given: a float64       *)
(* holding a widened float32 is written with its 4 bytes.                  *)
(***************************************************************************)
Stored(v) == [v |-> v, err |-> NilErr]
NotStored(err) == [v |-> NilIface, err |-> err]

storeBool(tt, b, n) ==
  IF Kind(tt) = "Bool" THEN Stored(VBool(b.b))
  ELSE IF Kind(tt) = "Interface" THEN Stored(b)
  ELSE NotStored(InvalidTypeError("bool", tt, n))

storeByteArr(tt, b, n) ==
  IF Kind(tt) = "String" THEN Stored(VStr(tt, b.s))
  ELSE IF Kind(tt) = "Slice" THEN
    IF Kind(ElemT(tt)) # "Uint8" THEN NotStored(InvalidTypeError("bytestring", tt, n))
    ELSE Stored(VBytes(b.s))
  ELSE IF Kind(tt) = "Interface" THEN Stored(b)
  ELSE NotStored(InvalidTypeError("bytestring", tt, n))

storeSymbol(tt, s, n) ==
  IF Kind(tt) = "String" THEN
    IF tt = "Symbol" THEN Stored(VStr(tt, s.s))
    ELSE NotStored(InvalidTypeError("symbol", tt, n))
  ELSE IF Kind(tt) = "Interface" THEN Stored(s)
  ELSE NotStored(InvalidTypeError("symbol", tt, n))

storeString(tt, s, n) ==
  IF Kind(tt) = "String" THEN Stored(VStr(tt, s.s))
  ELSE IF Kind(tt) = "Slice" THEN
    IF Kind(ElemT(tt)) # "Uint8" THEN NotStored(InvalidTypeError("string", tt, n))
    ELSE Stored(VBytes(s.s))
  ELSE IF Kind(tt) = "Interface" THEN Stored(s)
  ELSE NotStored(InvalidTypeError("string", tt, n))

storeBigInt(tt, i, n) ==
  IF Kind(tt) = "Ptr" THEN
    IF tt = "*big.Int" THEN Stored(i)
    ELSE NotStored(InvalidTypeError("big integer", tt, n))
  ELSE IF Kind(tt) = "Interface" THEN Stored(i)
  ELSE NotStored(InvalidTypeError("big integer", tt, n))

\* the largest value of an integer type: 2^(N-1) - 1, or 2^N - 1 unsigned
MaxOf(tt) ==
  IF tt = "int8" THEN <<1,2,7>>
  ELSE IF tt = "int16" THEN <<3,2,7,6,7>>
  ELSE IF tt = "int32" THEN <<2,1,4,7,4,8,3,6,4,7>>
  ELSE IF tt = "int64" THEN MaxInt64Dec
  ELSE IF tt = "uint8" THEN <<2,5,5>>
  ELSE IF tt = "uint16" THEN <<6,5,5,3,5>>
  ELSE IF tt = "uint32" THEN <<4,2,9,4,9,6,7,2,9,5>>
  ELSE MaxUint64Dec

\* reflect.Value.OverflowInt: x != (x << (64 - N)) >> (64 - N), x an int64
OverflowInt(tt, neg, mag) ==
  IF neg THEN DecCmp(mag, DecSucc(MaxOf(tt))) > 0 ELSE DecCmp(mag, MaxOf(tt)) > 0

\* reflect.Value.OverflowUint: x != (x << (64 - N)) >> (64 - N), x a uint64
OverflowUint(tt, u) == DecCmp(u, MaxOf(tt)) > 0

storeInt(tt, i, n) ==
  IF tt \in IntTypes THEN
    IF OverflowInt(tt, i.b, i.s)
    THEN NotStored(InvalidTypeError("integer overflow", tt, n))
    ELSE Stored(VInt(tt, i.b, i.s))
  ELSE IF tt \in UintTypes THEN
    IF OverflowUint(tt, Uint64OfInt64(i.b, i.s))
    THEN NotStored(InvalidTypeError("unsigned integer overflow", tt, n))
    ELSE Stored(VInt(tt, FALSE, Uint64OfInt64(i.b, i.s)))
  ELSE IF Kind(tt) = "Interface" THEN Stored(i)
  ELSE NotStored(InvalidTypeError("integer", tt, n))

RECURSIVE BytesGreater(_, _)
BytesGreater(a, b) ==
  IF a = <<>> THEN FALSE
  ELSE IF Head(a) # Head(b) THEN Head(a) > Head(b)
  ELSE BytesGreater(Tail(a), Tail(b))

\* overflowFloat32(x) for the float64 with these bits:
\* math.MaxFloat32 < |x| && |x| <= math.MaxFloat64
OverflowFloat32(bits) ==
  LET abs == <<bits[1] % 128>> \o Tail(bits) IN
  /\ BytesGreater(abs, <<71, 239, 255, 255, 224, 0, 0, 0>>)
  /\ ~BytesGreater(abs, <<127, 239, 255, 255, 255, 255, 255, 255>>)

storeFloat32(tt, f, n) ==
  IF tt \in FloatTypes THEN Stored(VFloat(tt, f.s))
  ELSE IF Kind(tt) = "Interface" THEN Stored(f)
  ELSE NotStored(InvalidTypeError("single precision float", tt, n))

storeFloat64(tt, f, n) ==
  IF tt \in FloatTypes THEN
    IF tt = "float32" /\ OverflowFloat32(f.s)
    THEN NotStored(InvalidTypeError("double precision float overflow", tt, n))
    ELSE Stored(VFloat(tt, f.s))
  ELSE IF Kind(tt) = "Interface" THEN Stored(f)
  ELSE NotStored(InvalidTypeError("double precision float", tt, n))

\* the store a value op calls for
Store(oper, tt, val, n) ==
  IF oper = "valBoolop" THEN storeBool(tt, val, n)
  ELSE IF oper = "valByteArrOp" THEN storeByteArr(tt, val, n)
  ELSE IF oper = "valSymbolOp" THEN storeSymbol(tt, val, n)
  ELSE IF oper = "valStringOp" THEN storeString(tt, val, n)
  ELSE IF oper = "valIntOp" THEN
    (IF val.t = "*big.Int" THEN storeBigInt(tt, val, n) ELSE storeInt(tt, val, n))
  ELSE IF oper = "valFloat32Op" THEN storeFloat32(tt, val, n)
  ELSE storeFloat64(tt, val, n)

\* buildMetadata, were a field of any visibility taken
buildMetadata_Unexported(t) ==
  LET fs == StructFields(t)
  IN  [i \in 1 .. Len(fs) |-> [name |-> fs[i].name, fieldIdx |-> i, t |-> fs[i].type]]

(***************************************************************************)
(* Type metadata.                                                          *)
(***************************************************************************)
\* buildMetadata(t).fields: the exported fields, each with the index of
\* its declaration; fieldNamesIndex maps fields[k].name to k
buildMetadata(t) ==
  LET fs == StructFields(t)
      RECURSIVE walk(_)
      walk(i) ==
        IF i > Len(fs) THEN <<>>
        ELSE IF ~fs[i].exported THEN walk(i + 1)
        ELSE <<[name |-> fs[i].name, fieldIdx |-> i, t |-> fs[i].type]>> \o walk(i + 1)
  IN walk(1)

\* a structMetadata as a value in memory: by tells the call of buildMetadata
\* that made its slice and its map
Metadata(t, by) == [fields |-> buildMetadata(t), by |-> by]

\* metadataCache holds nothing for a type
NoEntry == [fields |-> <<>>, by |-> 0]

\* metadataCache.LoadOrStore(t, m), were it Store: [cache, actual]
LoadOrStore_Store(c, t, m) == [cache |-> [c EXCEPT ![t] = m], actual |-> m]

\* metadataCache.LoadOrStore(t, m): [cache, actual]
LoadOrStore(c, t, m) ==
  IF c[t] # NoEntry THEN [cache |-> c, actual |-> c[t]]
  ELSE [cache |-> [c EXCEPT ![t] = m], actual |-> m]

\* m.fieldNamesIndex[skey]: the declaration index of the field, 0 when absent
FieldLookup(m, skey) ==
  IF \E k \in 1 .. Len(m) : m[k].name = skey
  THEN m[CHOOSE k \in 1 .. Len(m) : m[k].name = skey].fieldIdx
  ELSE 0

(***************************************************************************)
(* The Decoder.  Between two reads the Go call stack is                    *)
(*   Decode > run > handleOp > container loop > run > handleOp > ... > run *)
(* and is kept as one frame per container loop, under the frame of Decode. *)
(* A frame holds the loop's locals and the destination of the run it is    *)
(* waiting for:                                                            *)
(*   fn    the function whose loop this is                                 *)
(*   open  the op that entered it (what the enclosing run returns as last) *)
(*   pv    the container destination, as it stands in memory               *)
(*   i     recurCreatingSliceOrArray's index                               *)
(*   stop  the close op that ends the loop                                 *)
(*   ph    which run of the loop body is active                            *)
(*   key   the key read (dictionaries), the label read (records)           *)
(*   vals  the elements gathered so far (interfaceSlice, interfaceDict,    *)
(*         the record's Values)                                            *)
(*   tgt   the value at the destination of the active run, tt its type,    *)
(*         valid whether that destination is a valid reflect.Value         *)
(*   fidx  the struct field the active run decodes into (0: none)          *)
(***************************************************************************)
Frame(fn, open, pv, stop, ph, tgt, tt, valid) ==
  [fn |-> fn, open |-> open, pv |-> pv, i |-> 0, stop |-> stop, ph |-> ph,
   key |-> NilIface, vals |-> VSlice("[]interface{}", <<>>, 0),
   tgt |-> tgt, tt |-> tt, valid |-> valid, fidx |-> 0]

Top(stk) == stk[Len(stk)]
Pop(stk) == SubSeq(stk, 1, Len(stk) - 1)
SetTop(stk, f) == [stk EXCEPT ![Len(stk)] = f]

\* what a step leaves: the stack, d.n and, when Decode has returned, its
\* error and the destination
Waiting(stk, n) == [stk |-> stk, n |-> n, done |-> FALSE, err |-> NilErr, dest |-> NilIface]
Returned(n, err, dest) == [stk |-> <<>>, n |-> n, done |-> TRUE, err |-> err, dest |-> dest]

\* []byte keeps its elements as bytes
LenOf(pv) == IF pv.t = "[]byte" THEN Len(pv.s) ELSE Len(pv.e)
Index(pv, i) ==
  IF pv.t = "[]byte" THEN VInt("uint8", FALSE, NatToDec(pv.s[i + 1])) ELSE pv.e[i + 1]
SetIndex(pv, i, x) ==
  IF pv.t = "[]byte" THEN [pv EXCEPT !.s[i + 1] = DecToNat(x.s)]
  ELSE [pv EXCEPT !.e[i + 1] = x]

\* reflect.Value.SetLen(n): the elements between the old and the new length
\* are those of the backing array, zero after MakeSlice
SetLen(pv, n) ==
  IF pv.t = "[]byte"
  THEN [pv EXCEPT !.s = [k \in 1 .. n |-> IF k <= Len(pv.s) THEN pv.s[k] ELSE 0]]
  ELSE [pv EXCEPT !.e = [k \in 1 .. n |->
                           IF k <= Len(pv.e) THEN pv.e[k] ELSE Zero(ElemT(pv.t))]]

\* append(s, x) on a []interface{}: capacity doubles when full
AppendSlice(s, x) ==
  [s EXCEPT !.b = FALSE, !.e = Append(s.e, x),
            !.c = IF Len(s.e) < s.c THEN s.c ELSE IF s.c = 0 THEN 1 ELSE 2 * s.c]

\* s[:len(s)-1]
DropLast_Keep(s) == s
DropLast(s) == [s EXCEPT !.e = SubSeq(s.e, 1, Len(s.e) - 1)]

\* reflect.Value.SetMapIndex(key, val); m[key] = val
SetMapIndex(m, key, val) ==
  IF \E k \in 1 .. Len(m.e) : m.e[k].e[1] = key
  THEN [m EXCEPT !.e[CHOOSE k \in 1 .. Len(m.e) : m.e[k].e[1] = key] = VEntry(key, val)]
  ELSE [m EXCEPT !.e = Append(m.e, VEntry(key, val))]

\* a map key of a type Go cannot hash makes the assignment panic
Hashable(k) == Kind(k.t) \notin {"Slice", "Map", "Struct"}

\* recurCreatingSliceOrArray, top of the loop body: grow the slice, then
\* pick the destination of the element
SliceLoopHead(f) ==
  LET pv == f.pv
      isSlice == Kind(pv.t) = "Slice"
      capt  == pv.c + pv.c \div 2
      grown == IF isSlice /\ f.i >= pv.c
               THEN [pv EXCEPT !.b = FALSE, !.c = IF capt < 4 THEN 4 ELSE capt]
               ELSE pv
      ext   == IF isSlice /\ f.i >= LenOf(grown) THEN SetLen(grown, f.i + 1) ELSE grown
  IN  IF f.i < LenOf(ext)
      THEN [f EXCEPT !.pv = ext, !.tgt = Index(ext, f.i), !.tt = ElemT(pv.t),
                     !.valid = TRUE]
      ELSE [f EXCEPT !.pv = ext, !.tgt = NilIface, !.tt = "", !.valid = FALSE]

\* recurCreatingSliceOrArray, after the loop: i is the loop's final index
SliceFinish_Untrimmed(pv, i) == pv
SliceFinish(pv, i) ==
  IF Kind(pv.t) = "Array"
  THEN [pv EXCEPT !.e = [k \in 1 .. Len(pv.e) |->
                           IF k > i - 1 THEN Zero(ElemT(pv.t)) ELSE pv.e[k]]]
  ELSE IF i - 1 = 0 THEN [pv EXCEPT !.b = FALSE, !.s = <<>>, !.e = <<>>, !.c = 0]
  ELSE SetLen(pv, i - 1)

\* the dictionary loop of handleOp: the destination of the key
DictKeyFrame(f) ==
  IF Kind(f.pv.t) = "Map"
  THEN [f EXCEPT !.ph = "key", !.tgt = Zero(KeyT(f.pv.t)), !.tt = KeyT(f.pv.t),
                 !.valid = TRUE, !.fidx = 0]
  ELSE [f EXCEPT !.ph = "key", !.tgt = VStr("string", <<>>), !.tt = "string",
                 !.valid = TRUE, !.fidx = 0]

\* the dictionary loop of handleOp: the destination of the value, the key
\* being f.tgt
DictValFrame(f) ==
  IF Kind(f.pv.t) = "Map"
  THEN [f EXCEPT !.ph = "val", !.key = f.tgt, !.tgt = Zero(ElemT(f.pv.t)),
                 !.tt = ElemT(f.pv.t), !.valid = TRUE]
  ELSE LET m == IF Kind(f.pv.t) = "Struct" THEN buildMetadata(f.pv.t) ELSE <<>>
           idx == FieldLookup(m, f.tgt.s)
       IN IF idx # 0
          THEN [f EXCEPT !.ph = "val", !.key = f.tgt, !.tgt = f.pv.e[idx],
                         !.tt = StructFields(f.pv.t)[idx].type, !.valid = TRUE,
                         !.fidx = idx]
          ELSE [f EXCEPT !.ph = "val", !.key = f.tgt, !.tgt = NilIface, !.tt = "",
                         !.valid = FALSE, !.fidx = 0]

\* what the memory of the frame's container destination holds when the
\* active run returns: element and field destinations are written in place
InPlace(f) ==
  IF f.fn = "recurCreatingSliceOrArray" /\ f.valid THEN SetIndex(f.pv, f.i, f.tgt)
  ELSE IF f.fn = "handleOp" /\ f.ph = "val" /\ f.fidx # 0
    THEN [f.pv EXCEPT !.e[f.fidx] = f.tgt]
  ELSE f.pv

\* Every function on the stack returns the error.  The destination of
\* Decode keeps what was written in place; the locals of interfaceSlice,
\* interfaceDict and of the record branch are lost.
RECURSIVE Unwind(_)
Unwind(stk) ==
  LET f == Top(stk) IN
  IF Len(stk) = 1 THEN f.tgt
  ELSE LET p == stk[Len(stk) - 1]
           left == IF f.fn \in {"recurCreatingSliceOrArray", "handleOp"}
                   THEN InPlace(f) ELSE p.tgt
       IN Unwind(SetTop(Pop(stk), [p EXCEPT !.tgt = left]))

\* Decode: io.EOF from run becomes nil
DecodeErr(err) == IF err = EOFErr THEN NilErr ELSE err

Failed_Nil(stk, n, err) == Returned(n, NilErr, Unwind(stk))
Failed(stk, n, err) == Returned(n, DecodeErr(err), Unwind(stk))

\* run, lines 236-238: Read returned no byte and no error
ShortRead_AsEOF(stk, n) == Failed(stk, n, EOFErr)
ShortRead(stk, n) ==
  Failed(stk, n, ErrorsNew("syrup read 0 bytes instead of 1 byte"))

(***************************************************************************)
(* Return(stk, n, last): the active run of the top frame has returned      *)
(* (last, nil), its destination holding f.tgt.  The loop of the top frame  *)
(* goes on: either it calls run again, and the decoder waits for the next  *)
(* byte, or it ends; then handleOp returns (stop = true, nil) and the      *)
(* enclosing run returns the op that opened the container.                 *)
(***************************************************************************)
RECURSIVE Return(_, _, _)

\* the container function of the top frame returns nil, having left value
\* in its destination
Close(stk, n, value) ==
  LET p == stk[Len(stk) - 1] IN
  Return(SetTop(Pop(stk), [p EXCEPT !.tgt = value]), n, Top(stk).open)

\* recurCreatingSliceOrArray, lines 509-537
ReturnToSlice(stk, n, last) ==
  LET f == Top(stk)
      g == [f EXCEPT !.pv = InPlace(f), !.i = f.i + 1]
  IN  IF last # f.stop
      THEN Waiting(SetTop(stk, SliceLoopHead(g)), n)
      ELSE Close(stk, n, SliceFinish(g.pv, g.i))

\* interfaceSlice, lines 544-553
ReturnToInterfaceSlice(stk, n, last) ==
  LET f == Top(stk)
      vals == AppendSlice(f.vals, f.tgt)
  IN  IF last # "closeListOp"
      THEN Waiting(SetTop(stk, [f EXCEPT !.vals = vals, !.tgt = NilIface]), n)
      ELSE Close(stk, n, DropLast(vals))

\* interfaceDict, lines 455-469
ReturnToInterfaceDict(stk, n, last) ==
  LET f == Top(stk) IN
  IF f.ph = "key" THEN
    IF last # "closeDictOp"
    THEN Waiting(SetTop(stk, [f EXCEPT !.ph = "val", !.key = f.tgt, !.tgt = NilIface]), n)
    ELSE Close(stk, n, f.vals)
  ELSE IF ~Hashable(f.key)
    THEN Failed(stk, n, Err("panic", "hash of unhashable type", f.key.t, 0))
  ELSE
    LET vals == SetMapIndex(f.vals, f.key, f.tgt) IN
    IF last # "closeDictOp"
    THEN Waiting(SetTop(stk, [f EXCEPT !.ph = "key", !.vals = vals, !.tgt = NilIface]), n)
    ELSE Close(stk, n, vals)

\* handleOp, openDictOp, lines 371-409
ReturnToDict(stk, n, last) ==
  LET f == Top(stk) IN
  IF f.ph = "key" THEN
    IF last # "closeDictOp"
    THEN Waiting(SetTop(stk, DictValFrame(f)), n)
    ELSE Close(stk, n, f.pv)
  ELSE IF Kind(f.pv.t) = "Map" /\ ~Hashable(f.key)
    THEN Failed(stk, n, Err("panic", "hash of unhashable type", f.key.t, 0))
  ELSE
    LET pv == IF Kind(f.pv.t) = "Map" THEN SetMapIndex(f.pv, f.key, f.tgt)
              ELSE InPlace(f)
    IN  IF last # "closeDictOp"
        THEN Waiting(SetTop(stk, DictKeyFrame([f EXCEPT !.pv = pv])), n)
        ELSE Close(stk, n, pv)

\* handleOp, openRecordOp, lines 423-437
ReturnToRecord(stk, n, last) ==
  LET f == Top(stk) IN
  IF f.ph = "label" THEN
    IF last # "closeRecordOp"
    THEN Waiting(SetTop(stk, [f EXCEPT !.ph = "ele", !.key = f.tgt, !.tgt = NilIface]), n)
    ELSE Close(stk, n, VRecord(f.tgt, f.vals))
  ELSE
    LET vals == AppendSlice(f.vals, f.tgt) IN
    IF last # "closeRecordOp"
    THEN Waiting(SetTop(stk, [f EXCEPT !.vals = vals, !.tgt = NilIface]), n)
    ELSE Close(stk, n, VRecord(f.key, DropLast(vals)))

Return(stk, n, last) ==
  LET f == Top(stk) IN
  IF f.fn = "Decode" THEN Returned(n, NilErr, f.tgt)
  ELSE IF f.fn = "recurCreatingSliceOrArray" THEN ReturnToSlice(stk, n, last)
  ELSE IF f.fn = "interfaceSlice" THEN ReturnToInterfaceSlice(stk, n, last)
  ELSE IF f.fn = "interfaceDict" THEN ReturnToInterfaceDict(stk, n, last)
  ELSE IF f.ph \in {"key", "val"} THEN ReturnToDict(stk, n, last)
  ELSE ReturnToRecord(stk, n, last)

(***************************************************************************)
(* handleOp(v, oper), v being the destination of the top frame's run.      *)
(***************************************************************************)
\* interfaceSlice entered: vals := make([]interface{}, 0)
interfaceSlice(stk, n, oper) ==
  Waiting(Append(stk, Frame("interfaceSlice", oper, Top(stk).tgt, "closeListOp",
                            "ele", NilIface, "interface{}", TRUE)), n)

\* interfaceDict entered: vals := make(map[interface{}]interface{}, 0)
interfaceDict(stk, n, oper) ==
  Waiting(Append(stk,
            [Frame("interfaceDict", oper, Top(stk).tgt, "closeDictOp", "key",
                   NilIface, "interface{}", TRUE)
               EXCEPT !.vals = VMap("map[interface{}]interface{}", <<>>)]), n)

recurCreatingSliceOrArray(stk, n, oper, stop, errHint) ==
  LET f == Top(stk) IN
  IF Kind(f.tt) = "Interface" THEN interfaceSlice(stk, n, oper)
  ELSE IF Kind(f.tt) \in {"Array", "Slice"}
  THEN Waiting(Append(stk, SliceLoopHead(
         Frame("recurCreatingSliceOrArray", oper, f.tgt, stop, "ele",
               NilIface, "", FALSE))), n + 1)
  ELSE Failed(stk, n, InvalidTypeError(errHint, f.tt, n))

\* handleOp, openDictOp, lines 339-370
OpenDict(stk, n, oper) ==
  LET f == Top(stk)
      made == IF f.tgt.b THEN VMap(f.tt, <<>>) ELSE f.tgt
  IN
  IF Kind(f.tt) = "Interface" THEN interfaceDict(stk, n, oper)
  ELSE IF Kind(f.tt) = "Map" THEN
    IF Kind(KeyT(f.tt)) \notin {"Interface", "String"}
    THEN Failed(stk, n, InvalidTypeError("dict", f.tt, n))
    ELSE Waiting(Append(stk, DictKeyFrame(
           Frame("handleOp", oper, made, "closeDictOp", "key", NilIface, "", FALSE))),
           n + 1)
  \* a struct, and every other kind: the InvalidTypeError assigned at line
  \* 367 is not returned, and the loop reads the key
  ELSE Waiting(Append(stk, DictKeyFrame(
         Frame("handleOp", oper, f.tgt, "closeDictOp", "key", NilIface, "", FALSE))),
         n + 1)

\* handleOp, openRecordOp, lines 413-423: var r Record
OpenRecord(stk, n, oper) ==
  LET f == Top(stk) IN
  IF f.tt # "Record" /\ Kind(f.tt) # "Interface"
  THEN Failed(stk, n, InvalidTypeError("record", f.tt, n))
  ELSE Waiting(Append(stk,
         [Frame("handleOp", oper, f.tgt, "closeRecordOp", "label", NilIface,
                "interface{}", TRUE)
            EXCEPT !.vals = VNilSlice("[]interface{}")]), n)

\* a value op: the accessor, then the store, then d.n++
HandleVal(stk, n, oper, buf) ==
  LET f == Top(stk)
      a == Accessor(oper, buf)
      st == Store(oper, f.tt, a.v, n)
  IN  IF a.err # NilErr THEN Failed(stk, n, a.err)
      ELSE IF st.err # NilErr THEN Failed(stk, n + 1, st.err)
      ELSE Return(SetTop(stk, [f EXCEPT !.tgt = st.v]), n + 1, oper)

\* buf is the scanner's buffer when handleOp is called
handleOp(stk, n, oper, buf) ==
  IF ~Top(stk).valid THEN Waiting(stk, n + 1)
  ELSE IF oper = "noop" THEN Waiting(stk, n + 1)
  ELSE IF oper \in ValOps THEN HandleVal(stk, n, oper, buf)
  ELSE IF oper = "openListOp"
    THEN recurCreatingSliceOrArray(stk, n, oper, "closeListOp", "list")
  ELSE IF oper = "openDictOp" THEN OpenDict(stk, n, oper)
  ELSE IF oper = "openSetOp"
    THEN recurCreatingSliceOrArray(stk, n, oper, "closeSetOp", "set")
  ELSE IF oper = "openRecordOp" THEN OpenRecord(stk, n, oper)
  ELSE Return(stk, n, oper)

\* the scanner after handleOp: a value accessor resets the buffer
AfterHandleOp(stk, oper, sc) ==
  IF Top(stk).valid /\ oper \in ValOps THEN [sc EXCEPT !.buf = <<>>] ELSE sc

(***************************************************************************)
(* Bounds of the model.                                                    *)
(***************************************************************************)
\* the longest string, symbol or byte string payload enumerated
MaxPayload == 2
\* the longest list or set enumerated
MaxElems == 3
\* the number of Decode calls made on one Decoder
MaxDecodes == 2

(***************************************************************************)
(* The values encoded.                                                     *)
(***************************************************************************)
SeqsUpTo(S, k) == UNION {[1 .. m -> S] : m \in 0 .. k}

Str(s) == VStr("string", s)
Sym(s) == VStr("Symbol", s)
I64(m) == VInt("int64", FALSE, m)
List(e) == VSlice("[]interface{}", e, Len(e))
SetOf(e) == VSlice("Set", e, Len(e))
Dict(e) == VMap("map[interface{}]interface{}", e)

\* payload bytes: a letter, a digit, a close bracket, a quote
PayloadBytes == {97, 48, 93, 34}
Payloads ==
  SeqsUpTo(PayloadBytes, MaxPayload)
  \cup {<<97, 98, 99, 100, 101, 102, 103, 104, 105, 106, 107>>}

Int64Values ==
  {VInt("int64", FALSE, m) : m \in {<<0>>, <<7>>, <<1,2,7>>, <<1,2,8>>,
                                   <<2,1,4,7,4,8,3,6,4,8>>, MaxInt64Dec}}
  \cup {VInt("int64", TRUE, m) : m \in {<<7>>, <<1,2,8>>, <<1,2,9>>, MinInt64Mag}}
Int8Values ==
  {VInt("int8", FALSE, m) : m \in {<<0>>, <<7>>, <<1,2,7>>}}
  \cup {VInt("int8", TRUE, m) : m \in {<<7>>, <<1,2,8>>}}

ScalarValues ==
  {VBool(TRUE), VBool(FALSE)} \cup Int64Values \cup Int8Values
  \cup {Str(s) : s \in Payloads}
  \cup {Sym(s) : s \in Payloads}
  \cup {VBytes(s) : s \in Payloads}

\* the list 1, 2, ..., m
Counting(m) == [k \in 1 .. m |-> I64(<<k>>)]
IntLists == {Counting(m) : m \in 0 .. MaxElems}
StrLists == {[k \in 1 .. Len(q) |-> Str(q[k])] : q \in SeqsUpTo({<<>>, <<97>>}, MaxElems)}
NestedLists ==
  {[k \in 1 .. Len(q) |-> List(q[k])] : q \in SeqsUpTo({Counting(m) : m \in 0 .. 2}, 2)}

\* elements of every wire kind
MixedElems ==
  {I64(<<7>>), Str(<<97>>), Str(<<>>), Sym(<<97>>), VBytes(<<97>>), VBool(TRUE),
   VFloat("float32", <<64, 73, 15, 208>>), List(<<I64(<<1>>)>>),
   VRecord(Sym(<<97>>), List(<<>>))}
MixedLists == SeqsUpTo(MixedElems, 2)

Struct1Values ==
  {VStruct("Struct1", <<I64(i), Zero("float32"), Str(s)>>) :
     i \in {<<0>>, <<7>>}, s \in {<<97>>, <<97, 98>>}}
TaggedValues ==
  {VStruct("Tagged", <<I64(i), Str(s)>>) : i \in {<<0>>, <<7>>}, s \in {<<>>, <<97>>}}

(***************************************************************************)
(* What the specification has a value decode as, in a destination of type  *)
(* t: the measure the properties hold the Decoder to.                      *)
(***************************************************************************)
\* the dictionary a struct is written as
AsEntries(v) ==
  LET kv == StructEntries(v) IN [k \in 1 .. Len(kv) \div 2 |-> VEntry(kv[2*k - 1], kv[2*k])]

RECURSIVE Want(_, _)
Want(t, v) ==
  IF t = "interface{}" THEN
    IF v.t \in IntTypes THEN VInt("int64", v.b, v.s)
    ELSE IF Kind(v.t) = "Slice" /\ v.t # "[]byte"
      THEN VSlice("[]interface{}", [k \in 1 .. Len(v.e) |-> Want(t, v.e[k])], 0)
    ELSE IF Kind(v.t) = "Map"
      THEN Dict([k \in 1 .. Len(v.e) |->
                  VEntry(Want(t, v.e[k].e[1]), Want(t, v.e[k].e[2]))])
    ELSE IF v.t = "Record"
      THEN VRecord(Want(t, v.e[1]), Want(t, v.e[2]))
    ELSE IF Kind(v.t) = "Struct" THEN Want(t, Dict(AsEntries(v)))
    ELSE v
  ELSE IF Kind(t) = "Array"
    THEN VArray(t, [k \in 1 .. ArrLen(t) |->
                     IF k <= Len(v.e) THEN Want(ElemT(t), v.e[k]) ELSE Zero(ElemT(t))])
  ELSE IF Kind(t) = "Slice" /\ t # "[]byte"
    THEN VSlice(t, [k \in 1 .. Len(v.e) |-> Want(ElemT(t), v.e[k])], 0)
  ELSE [v EXCEPT !.t = t]

\* a value without the capacities of its slices
RECURSIVE Norm(_)
Norm(v) == [v EXCEPT !.c = 0, !.e = [k \in 1 .. Len(v.e) |-> Norm(v.e[k])]]

Same(a, b) == Norm(a) = Norm(b)

(***************************************************************************)
(* Scenarios: the reader's bytes, the type and first value of the          *)
(* destination, the value the bytes were encoded from (src.t = "nil" when  *)
(* none) and the value the destination should end with.                    *)
(***************************************************************************)
Scenario(fam, input, dtype, dinit, src, want) ==
  [fam |-> fam, input |-> input, dtype |-> dtype, dinit |-> dinit, src |-> src,
   want |-> want]

\* Encode(v), read into a zero variable of type t
Plain(fam, v, t) == Scenario(fam, Encode(v).out, t, Zero(t), v, Want(t, v))

\* a destination array that holds data before Decode
Prefilled(t) ==
  IF ElemT(t) = "int64" THEN VArray(t, [k \in 1 .. ArrLen(t) |-> I64(<<9>>)])
  ELSE IF ElemT(t) = "string" THEN VArray(t, [k \in 1 .. ArrLen(t) |-> Str(<<122>>)])
  ELSE Zero(t)

\* each scalar into a variable of its own type
RoundTripScalars == {Plain("scalar", v, v.t) : v \in ScalarValues}

\* structs into themselves
Structs ==
  {Plain("struct", v, v.t) : v \in Struct1Values}
  \cup {Plain("tagged", v, v.t) : v \in TaggedValues}

\* a dictionary with a key x that Struct1 has no field for, before, between
\* or after the keys I and Str
InsertAt(q, k, x) == SubSeq(q, 1, k) \o <<x>> \o SubSeq(q, k + 1, Len(q))
WithUnknown(v, k, u) == Dict(InsertAt(AsEntries(v), k, VEntry(Str(<<120>>), u)))
UnknownKeys ==
  {Scenario("unknown", Encode(WithUnknown(v, k, u)).out, "Struct1", Zero("Struct1"),
            WithUnknown(v, k, u), v) :
     v \in Struct1Values, k \in 0 .. 2,
     u \in {I64(<<1>>), Str(<<97>>), List(Counting(2)), VBool(TRUE)}}

\* a Struct1 whose fields, the unexported f included, hold data before Decode
HeldStruct1 ==
  VStruct("Struct1", <<I64(<<9>>), VFloat("float32", <<64, 0, 0, 0>>), Str(<<122>>)>>)

\* the dictionary of v with an entry under the name of the unexported field
\* f of Struct1, before, between or after the others
WithUnexported(v, k, u) == Dict(InsertAt(AsEntries(v), k, VEntry(Str(<<chF>>), u)))

\* a Struct1 whose f holds data, and dictionaries with a key f, into a
\* Struct1 whose f holds other data
Fields ==
  LET vals == {VStruct("Struct1", <<I64(i), VFloat("float32", <<63, 0, 0, 0>>), Str(s)>>) :
                 i \in {<<0>>, <<7>>}, s \in {<<97>>, <<97, 98>>}}
      keep(v) == [v EXCEPT !.e[2] = HeldStruct1.e[2]]
  IN  {Scenario("fields", Encode(v).out, "Struct1", HeldStruct1, v, keep(v)) : v \in vals}
      \cup {Scenario("fields", Encode(WithUnexported(v, k, u)).out, "Struct1", HeldStruct1,
                      WithUnexported(v, k, u), keep(v)) :
               v \in vals, k \in 0 .. 2,
               u \in {VFloat("float32", <<63, 0, 0, 0>>), I64(<<1>>), Str(<<97>>)}}
      \cup {Scenario("fields", Encode(d).out, "Struct1", HeldStruct1, d, HeldStruct1) :
               d \in {Dict(<<VEntry(Str(<<chF>>), VFloat("float32", <<63, 0, 0, 0>>))>>)}}

\* lists and sets into fixed arrays, empty and prefilled
Arrays ==
  LET into(e, t) ==
        {Scenario("array", Encode(w).out, t, d, w, Want(t, w)) :
           w \in {List(e), SetOf(e)}, d \in {Zero(t), Prefilled(t)}}
  IN  UNION ({into(e, t) : e \in IntLists, t \in {"[1]int64", "[2]int64"}}
             \cup {into(e, "[2]string") : e \in StrLists}
             \cup {into(e, "[2][1]int64") : e \in NestedLists})

\* lists and sets into slices
Slices ==
  {Plain("slice", List(e), "[]int64") : e \in IntLists}
  \cup {Plain("slice", List(e), "[]string") : e \in StrLists}
  \cup {Plain("slice", SetOf(e), "Set") : e \in MixedLists}

\* containers into an empty interface
Containers ==
  {List(e) : e \in MixedLists} \cup {SetOf(e) : e \in MixedLists}
  \cup {Dict(<<>>), Dict(<<VEntry(Str(<<97>>), I64(<<7>>))>>),
        Dict(<<VEntry(Sym(<<97>>), List(Counting(1))), VEntry(I64(<<7>>), Str(<<97>>))>>)}
  \cup {VRecord(Sym(<<97>>), List(e)) : e \in MixedLists}
  \cup Struct1Values
Opaque == {Plain("opaque", v, "interface{}") : v \in Containers}

\* a container into a variable that cannot hold it
Mismatches ==
  LET lists == {List(Counting(1)), SetOf(Counting(1)), List(<<>>), SetOf(<<>>)}
      dicts == {Dict(<<>>), Dict(<<VEntry(Str(<<97>>), I64(<<7>>))>>)}
      records == {VRecord(Sym(<<97>>), List(<<>>)), VRecord(Sym(<<97>>), List(Counting(1)))}
  IN  {Plain("mismatch", v, t) : v \in lists,
         t \in {"bool", "int64", "string", "Symbol", "float64", "map[string]int64",
                "Struct1", "Record"}}
      \cup {Plain("mismatch", v, t) : v \in dicts,
         t \in {"bool", "int64", "string", "Symbol", "float64", "[]int64", "[]byte",
                "[2]int64", "Set"}}
      \cup {Plain("mismatch", v, t) : v \in records,
         t \in {"bool", "int64", "string", "[]interface{}", "[2]int64",
                "map[string]int64", "Struct1"}}

\* every wire kind into every kind of variable
DestTypes ==
  {"bool", "int8", "int64", "uint8", "uint64", "float32", "float64", "string",
   "Symbol", "[]byte", "interface{}", "[]int64", "[2]int64", "Set",
   "map[string]int64", "map[interface{}]interface{}", "map[int64]string",
   "Record", "Struct1"}
WireValues ==
  MixedElems \cup Int8Values
  \cup {VRecord(Str(<<73>>), List(<<I64(<<7>>)>>)),
        Dict(<<VEntry(Str(<<73>>), I64(<<7>>))>>),
        SetOf(Counting(1)), VFloat("float64", <<105, 239, 0, 0, 0, 0, 0, 0>>),
        VFloat("float64", <<64, 9, 33, 249, 240, 27, 134, 110>>),
        VInt("uint64", FALSE, MaxUint64Dec)}
Crossed ==
  {Scenario("crossed", Encode(v).out, t, Zero(t), v, NilIface) :
     v \in WireValues, t \in DestTypes}

\* magnitudes at the edges of the 8, 16, 32 and 64 bit ranges
EdgeMagnitudes ==
  {<<0>>, <<7>>, <<1,2,7>>, <<1,2,8>>, <<1,2,9>>, <<2,5,5>>, <<2,5,6>>,
   <<3,2,7,6,7>>, <<3,2,7,6,8>>, <<6,5,5,3,5>>, <<6,5,5,3,6>>,
   <<2,1,4,7,4,8,3,6,4,7>>, <<2,1,4,7,4,8,3,6,4,8>>,
   <<4,2,9,4,9,6,7,2,9,5>>, <<4,2,9,4,9,6,7,2,9,6>>,
   MaxInt64Dec, MinInt64Mag, DecSucc(MinInt64Mag),
   MaxUint64Dec, DecSucc(MaxUint64Dec)}

\* the Go value that Encode writes as the integer: an int64 when there is
\* one, a *big.Int otherwise
WireInt(neg, mag) ==
  IF DecCmp(mag, IF neg THEN MinInt64Mag ELSE MaxInt64Dec) <= 0
  THEN VInt("int64", neg, mag) ELSE VInt("*big.Int", neg, mag)
WireInts ==
  {WireInt(FALSE, m) : m \in EdgeMagnitudes}
  \cup {WireInt(TRUE, m) : m \in EdgeMagnitudes \ {<<0>>}}

\* every wire integer into every integer variable and into an interface
Integers ==
  {Scenario("integer", Encode(v).out, t, Zero(t), v, NilIface) :
     v \in WireInts, t \in IntTypes \cup UintTypes \cup {"interface{}"}}

\* uint64 values into a uint64 variable
Unsigned ==
  {Plain("unsigned", VInt("uint64", FALSE, m), "uint64") :
     m \in EdgeMagnitudes \ {DecSucc(MaxUint64Dec)}}

\* the tokens of Encode(v): one per Write
Tokens(v) == EncodeTo(v, Accepting).w.log

\* the tokens one after another, ws ahead of token k, or of every token
\* when k = 0, or nowhere when there is no token k
RECURSIVE Joined(_, _, _, _)
Joined(toks, i, k, ws) ==
  IF i > Len(toks) THEN <<>>
  ELSE (IF k = 0 \/ k = i THEN ws ELSE <<>>) \o toks[i] \o Joined(toks, i + 1, k, ws)

\* runs of whitespace
Blanks == {<<32>>, <<10, 9>>, <<160, 13>>}

\* values with whitespace between their tokens; payloads that hold
\* whitespace; whitespace inside a length and inside a digit run
Spaced ==
  LET scalars == {I64(<<7>>), VBool(TRUE), Str(<<97, 32>>), Sym(<<10>>),
                  VFloat("float32", <<32, 9, 0, 10>>)}
      plain == {Plain("spaced", v, v.t) : v \in scalars}
               \cup {Plain("spaced", List(Counting(2)), "[]int64"),
                     Plain("spaced", List(<<Str(<<97>>), Str(<<32>>)>>), "[]string"),
                     Plain("spaced", SetOf(<<I64(<<7>>), Str(<<97>>)>>), "Set"),
                     Plain("spaced", List(<<I64(<<7>>), List(<<Str(<<32>>)>>)>>), "interface{}"),
                     Plain("spaced", VMap("map[string]int64",
                                          <<VEntry(Str(<<97>>), I64(<<7>>))>>),
                           "map[string]int64"),
                     Plain("spaced", VRecord(Sym(<<97>>), List(<<I64(<<7>>)>>)), "Record"),
                     Plain("spaced", VStruct("Struct1", <<I64(<<7>>), Zero("float32"),
                                                          Str(<<97>>)>>), "Struct1")}
  IN  {[s EXCEPT !.input = Joined(Tokens(s.src), 1, k, ws)] :
         s \in plain, k \in 0 .. 7, ws \in Blanks}
      \cup {Scenario("blank", in, t, Zero(t), NilIface, Zero(t)) :
              in \in {<<49, 32, chQuote, 97>>, <<chI, 32, 55, chE>>, <<chI, 55, 10, chE>>,
                      <<32>>, <<10, 9>>},
              t \in {"string", "int64"}}

\* records, their label and values scalars, lists and records, into a
\* Record and into an empty interface
Records ==
  LET inner == {VRecord(Sym(<<98>>), List(<<>>)), VRecord(Sym(<<98>>), List(<<I64(<<1>>)>>))}
      labels == {Sym(<<97>>), Str(<<97>>), I64(<<7>>)} \cup inner
      values == {<<>>, <<I64(<<7>>)>>, <<I64(<<7>>), Str(<<97>>)>>,
                 <<List(<<I64(<<1>>)>>), Sym(<<99>>)>>,
                 <<I64(<<1>>), I64(<<2>>), I64(<<3>>)>>}
                \cup {<<r>> : r \in inner} \cup {<<r, I64(<<7>>)>> : r \in inner}
  IN  {Plain("record", VRecord(l, List(e)), t) :
         l \in labels, e \in values, t \in {"Record", "interface{}"}}

\* lists and sets into slices that already have a length and a capacity
Priors(t) ==
  {Zero(t)} \cup
  {VSlice(t, [k \in 1 .. lc[1] |-> IF Kind(ElemT(t)) = "String" THEN Str(<<122>>)
                                   ELSE I64(<<9>>)], lc[2]) :
     lc \in {<<0, 0>>, <<0, 2>>, <<1, 1>>, <<2, 3>>, <<3, 4>>, <<4, 4>>, <<5, 6>>}}
Regrown ==
  LET ints == {Counting(m) : m \in 0 .. MaxElems + 2}
      strs == {[k \in 1 .. m |-> Str(<<96 + k>>)] : m \in 0 .. MaxElems + 2}
  IN  {Scenario("regrow", Encode(List(e)).out, "[]int64", d, List(e),
                Want("[]int64", List(e))) : e \in ints, d \in Priors("[]int64")}
      \cup {Scenario("regrow", Encode(List(e)).out, "[]string", d, List(e),
                     Want("[]string", List(e))) : e \in strs, d \in Priors("[]string")}
      \cup {Scenario("regrow", Encode(SetOf(e)).out, "Set", d, SetOf(e),
                     Want("Set", SetOf(e))) : e \in ints \cup strs, d \in Priors("Set")}

\* dictionaries of string keys and integer values into maps that are nil,
\* empty or hold an entry; "dangling" closes the dictionary after the key k
Dicts ==
  LET pairs == {<<>>, <<VEntry(Str(<<97>>), I64(<<1>>))>>,
                <<VEntry(Str(<<97>>), I64(<<1>>)), VEntry(Str(<<98>>), I64(<<2>>))>>,
                <<VEntry(Str(<<122>>), I64(<<3>>))>>}
      maps  == {"map[string]int64", "map[interface{}]interface{}"}
      prior(mt) == {Zero(mt), VMap(mt, <<>>),
                    VMap(mt, <<VEntry(Str(<<122>>), I64(<<9>>))>>)}
      wire(mt, e) == Encode(VMap(mt, e)).out
  IN  UNION {{Scenario("dict", wire(mt, e), mt, d, VMap(mt, e),
                       Want(mt, VMap(mt, e))) : e \in pairs, d \in prior(mt)}
             \cup {Scenario("dangling",
                     Front(wire(mt, e)) \o Encode(Str(<<107>>)).out \o <<chRBrace>>,
                     mt, d, VMap(mt, e), Want(mt, VMap(mt, e))) :
                     e \in pairs, d \in prior(mt)} : mt \in maps}

\* containers closed by the marker of another kind, and close markers
\* where no container is open
Unmatched ==
  LET one    == Encode(I64(<<1>>)).out
      key    == Encode(Str(<<97>>)).out
      label  == Encode(Sym(<<97>>)).out
      closes == {chRBrack, chRBrace, chDollar, chGt}
      opened == {<<<<chLBrack>> \o one, chRBrack>>, <<<<chHash>> \o one, chDollar>>,
                 <<<<chLBrace>> \o key \o one, chRBrace>>,
                 <<<<chLt>> \o label \o one, chGt>>}
  IN  {Scenario("unmatched", w, ty, Zero(ty), NilIface, NilIface) :
         w \in {<<c>> : c \in closes}
               \cup {o[1][1] \o <<o[2]>> : o \in {x \in opened \X closes : x[1][2] # x[2]}}
               \cup {o[1][1] \o <<o[2], o[1][2]>> :
                       o \in {x \in opened \X closes : x[1][2] # x[2]}},
         ty \in {"interface{}", "[]int64", "map[string]int64", "Record", "int64"}}

\* strings, symbols and byte strings whose payload bytes are whitespace,
\* digits, markers and introducers, alone and as elements of a list
Verbatim ==
  LET bytes == {<<32>>, <<93>>, <<10, 32>>, <<49, 34>>, <<105, 55, 101>>, <<0, 255, 13>>,
                <<91, 125, 62>>, <<51, 58, 39, 34>>,
                <<49, 58, 34, 39, 105, 101, 91, 32, 123, 60, 36, 70>>}
      vals  == {Str(s) : s \in bytes} \cup {Sym(s) : s \in bytes}
               \cup {VBytes(s) : s \in bytes}
  IN  {Plain("payload", v, ty) : v \in vals, ty \in {"interface{}"}}
      \cup {Plain("payload", v, v.t) : v \in vals}
      \cup {Plain("payload", List(<<v, I64(<<7>>)>>), "[]interface{}") : v \in vals}

\* floats whose bytes are whitespace, markers and introducers, alone and
\* as elements of a list
Floats ==
  LET vals == {VFloat("float32", s) : s \in {<<63, 128, 0, 0>>, <<32, 93, 105, 70>>,
                                              <<70, 68, 10, 255>>}}
              \cup {VFloat("float64", s) : s \in {<<64, 9, 33, 251, 84, 68, 45, 24>>,
                                                   <<68, 70, 32, 10, 91, 125, 0, 255>>}}
  IN  {Plain("float", v, ty) : v \in vals, ty \in {"interface{}"}}
      \cup {Plain("float", v, v.t) : v \in vals}
      \cup {Plain("float", List(<<v, I64(<<7>>), v>>), "[]interface{}") : v \in vals}

\* integer tokens without a digit, and with a minus sign after a digit or
\* after a minus sign, into destinations of every kind
NoDigits ==
  LET wires == {<<chI, chE>>, <<chI, chMinus, chE>>, <<chI, 55, chMinus, chE>>,
                <<chI, chMinus, chMinus, 55, chE>>, <<chI, chMinus, 55, chMinus, 55, chE>>}
      dests == {<<ty, Zero(ty)>> :
                  ty \in {"int64", "int8", "uint8", "uint64", "float64", "bool", "string",
                          "Symbol", "[]byte", "[]int64", "[2]int64", "map[string]int64",
                          "Struct1", "Record", "interface{}"}}
               \cup {<<"int64", I64(<<9>>)>>, <<"string", Str(<<122>>)>>,
                      <<"interface{}", I64(<<9>>)>>}
  IN  {Scenario("nodigit", w, d[1], d[2], NilIface, NilIface) : w \in wires, d \in dests}

\* what the reader delivers in place of a byte when Read returns 0, nil
NoByte == 256

\* readers that, after some bytes of a container, return 0 bytes and no
\* error
Short ==
  LET wires == {Encode(List(<<I64(<<1>>), Str(<<97>>)>>)).out,
                Encode(SetOf(<<I64(<<1>>), I64(<<2>>)>>)).out,
                Encode(Dict(<<VEntry(Str(<<97>>), I64(<<1>>))>>)).out,
                Encode(VRecord(Sym(<<97>>), List(<<I64(<<1>>)>>))).out}
  IN  {Scenario("short", SubSeq(w, 1, k) \o <<NoByte>>, ty, Zero(ty), NilIface, NilIface) :
         w \in wires, k \in 0 .. 6, ty \in {"interface{}", "[1]int64", "Struct1"}}

\* one value after another on the same reader
Trailing(S) ==
  {[s EXCEPT !.fam = "trailing", !.input = s.input \o Encode(w).out] :
     s \in S, w \in {I64(<<7>>), Str(<<97>>)}}

\* the reader ends inside the value
Truncated(S) ==
  UNION {{[s EXCEPT !.fam = "truncated", !.input = SubSeq(s.input, 1, k)] :
            k \in 0 .. Len(s.input) - 1} : s \in S}

Whole ==
  RoundTripScalars \cup Structs \cup UnknownKeys \cup Arrays \cup Slices \cup Opaque
  \cup Mismatches \cup Crossed \cup Integers \cup Unsigned \cup Fields \cup Spaced
  \cup Records \cup Regrown \cup Dicts \cup Unmatched \cup Verbatim \cup Floats
  \cup NoDigits \cup Short

Scenarios ==
  Whole
  \cup Trailing(RoundTripScalars \cup Structs \cup UnknownKeys \cup Arrays \cup Slices
                \cup Opaque)
  \cup Truncated(RoundTripScalars \cup Structs \cup Slices \cup Opaque)

(***************************************************************************)
(* State.                                                                  *)
(***************************************************************************)
VARIABLES
  fam,    \* the family of the scenario
  input,  \* what the Reads of the reader deliver, one byte each (NoByte: none)
  dtype,  \* the type of the variable each Decode is given a pointer to
  dinit,  \* the value of that variable when Decode is called
  src,    \* the value input was encoded from, if any
  want,   \* the value the variable should end with
  pos,    \* the number of bytes read from the reader
  sc,     \* Decoder.s, the scanner
  enlen,  \* Encoding.nlen, the float countdown
  n,      \* Decoder.n
  stk,    \* the frames of the running Decode, <<>> when none runs
  arg,    \* the argument of the latest Decode: "ptr", "nilptr", "nonptr"
  from,   \* pos when the latest Decode was called
  last,   \* the byte last given to Process, with the op and error returned
  calls,  \* the Decode calls that returned, oldest first
  ew,     \* the writer of the Encoder
  encs,   \* the Encode calls that returned, oldest first
  cache,  \* metadataCache: the entry of each type
  thr,    \* each thread's place in buildCachedMetadata, its t, ok and m
  ops,    \* the ops other than noop that Process returned to the running Decode
  pair    \* two Decoders on one Encoding: the reader and the state of each

scenario == <<fam, input, dtype, dinit, src, want>>
decoder == <<pos, sc, enlen, n, stk, arg, from, last, calls, ops>>
encoder == <<ew, encs>>
metadata == <<cache, thr>>
vars == <<fam, input, dtype, dinit, src, want, pos, sc, enlen, n, stk, arg, from,
          last, calls, ew, encs, cache, thr, ops, pair>>

\* no Encoder is in use
EncoderIdle == ew = Accepting /\ encs = <<>>

\* no second Decoder is in use
PairIdle == pair = <<>>

\* the threads that ask for metadata, and the types they ask it for
MaxThreads == 3
Threads == 1 .. MaxThreads
CachedTypes == {"Struct1", "Tagged"}

\* metadataCache is empty and no thread is in buildCachedMetadata
MetadataIdle ==
  /\ cache = [t \in CachedTypes |-> NoEntry]
  /\ thr = [th \in Threads |-> [pc |-> "idle", t |-> "", ok |-> FALSE, m |-> NoEntry]]

Init ==
  /\ \E s \in Scenarios :
       /\ fam = s.fam
       /\ input = s.input
       /\ dtype = s.dtype
       /\ dinit = s.dinit
       /\ src = s.src
       /\ want = s.want
  /\ pos = 0
  /\ sc = NewScanner
  /\ enlen = 0
  /\ n = 0
  /\ stk = <<>>
  /\ arg = "none"
  /\ from = 0
  /\ last = [b |-> 0, oper |-> "noop", err |-> NilErr]
  /\ calls = <<>>
  /\ ops = <<>>
  /\ EncoderIdle
  /\ MetadataIdle
  /\ PairIdle

Call(a, err, dest, start, end) ==
  [arg |-> a, err |-> err, dest |-> dest, from |-> start, to |-> end]

\* a check that forgets the nil pointer
DecodeRejects_NoNilCheck(a) == a = "nonptr"

\* Decode, line 221: rv.Kind() != reflect.Ptr || rv.IsNil()
DecodeRejects(a) == a # "ptr"

\* Decode(v): v is a pointer to a variable of type dtype ("ptr"), a nil
\* pointer ("nilptr") or a value that is no pointer ("nonptr")
Decode ==
  /\ stk = <<>>
  /\ Len(calls) < MaxDecodes
  /\ \E a \in {"ptr", "nilptr", "nonptr"} :
       /\ arg' = a
       /\ from' = pos
       /\ IF DecodeRejects(a)
          THEN /\ calls' = Append(calls, Call(a, InvalidDecodeError(dtype), NilIface, pos, pos))
               /\ UNCHANGED stk
          ELSE /\ stk' = <<Frame("Decode", "noop", NilIface, "noop", "", dinit, dtype, TRUE)>>
               /\ UNCHANGED calls
  /\ ops' = <<>>
  /\ UNCHANGED <<pair, metadata, encoder, scenario, pos, sc, enlen, n, last>>

\* the outcome of a step of run becomes the state
Becomes(r, end) ==
  /\ stk' = r.stk
  /\ n' = r.n
  /\ calls' = IF r.done THEN Append(calls, Call(arg, r.err, r.dest, from, end))
              ELSE calls

\* run, one iteration: Read delivers a byte
runRead ==
  /\ stk # <<>>
  /\ pos < Len(input)
  /\ input[pos + 1] # NoByte
  /\ LET b == input[pos + 1]
         p == Process(sc, enlen, b)
     IN  /\ pos' = pos + 1
         /\ enlen' = p.enlen
         /\ last' = [b |-> b, oper |-> p.oper, err |-> p.err]
         /\ IF p.err # NilErr
            THEN /\ sc' = p.sc
                 /\ Becomes(Failed(stk, n, p.err), pos + 1)
            ELSE /\ sc' = AfterHandleOp(stk, p.oper, p.sc)
                 /\ Becomes(handleOp(stk, n, p.oper, p.sc.buf), pos + 1)
         /\ ops' = IF p.err = NilErr /\ p.oper # "noop" THEN Append(ops, p.oper) ELSE ops
  /\ UNCHANGED <<pair, metadata, encoder, scenario, arg, from>>

\* run, one iteration: Read returns 0, io.EOF
runEOF ==
  /\ stk # <<>>
  /\ pos = Len(input)
  /\ Becomes(Failed(stk, n, EOFErr), pos)
  /\ UNCHANGED <<pair, metadata, encoder, scenario, pos, sc, enlen, arg, from, last, ops>>

\* run: Read returns 0 bytes and a nil error
runShort ==
  /\ stk # <<>>
  /\ pos < Len(input)
  /\ input[pos + 1] = NoByte
  /\ Becomes(ShortRead(stk, n), pos)
  /\ UNCHANGED <<pair, metadata, encoder, scenario, pos, sc, enlen, arg, from, last, ops>>

Next == Decode \/ runRead \/ runEOF \/ runShort

Spec == Init /\ [][Next]_vars

\* Decodes of containers: closed, unclosed, closed by the wrong marker, with
\* discarded elements, and on readers that return no byte.  A Decode that
\* was called runs on: Decode is a sequential loop, which nothing suspends.
LiveScenarios == Short \cup Unmatched \cup Arrays \cup UnknownKeys
LiveInit ==
  /\ \E s \in LiveScenarios :
       /\ fam = s.fam
       /\ input = s.input
       /\ dtype = s.dtype
       /\ dinit = s.dinit
       /\ src = s.src
       /\ want = s.want
  /\ pos = 0
  /\ sc = NewScanner
  /\ enlen = 0
  /\ n = 0
  /\ stk = <<>>
  /\ arg = "none"
  /\ from = 0
  /\ last = [b |-> 0, oper |-> "noop", err |-> NilErr]
  /\ calls = <<>>
  /\ ops = <<>>
  /\ EncoderIdle
  /\ MetadataIdle
  /\ PairIdle

\* Weak fairness of the loop of run, WF_vars(runRead \/ runEOF \/ runShort),
\* written out: the loop is enabled exactly while a Decode runs (stk is not
\* empty), and its steps are the steps taken from such a state.
RunFairness == []<>(stk = <<>>) \/ []<><<stk # <<>>>>_vars

LiveSpec == LiveInit /\ [][Next]_vars /\ RunFairness

(***************************************************************************)
(* The Encoder: one Encoder on one writer, Encode called on one value      *)
(* after another.  The writer takes everything, or lets one Write of its   *)
(* life down, by an error or by a short count.                             *)
(***************************************************************************)
MaxEncodes == 2
MaxFailAt == 5

\* the values handed to Encode
EncScalars ==
  { Str(<<>>), Str(<<97, 93>>), Sym(<<97>>), VBytes(<<91, 48>>),
    I64(<<7>>), VInt("int8", TRUE, <<7>>), VBool(TRUE),
    VFloat("float32", <<62, 91, 0, 0>>),
    VInt("uint64", FALSE, MaxUint64Dec),
    VInt("*big.Int", TRUE, DecSucc(MaxUint64Dec)) }

EncStructs ==
  { VStruct("Struct1", <<I64(<<7>>), VFloat("float32", <<63, 0, 0, 0>>), Str(<<97>>)>>),
    VStruct("Tagged", <<I64(<<7>>), Str(<<97>>)>>),
    VStruct("Struct2",
            <<VPtr(VStruct("Struct1", <<I64(<<1>>), Zero("float32"), Str(<<>>)>>)),
              VNilPtr>>) }

EncContainers ==
  { List(<<>>), List(<<I64(<<7>>), Str(<<93>>)>>),
    List(<<List(<<>>), SetOf(<<Sym(<<97>>)>>)>>),
    VSlice("[]string", <<Str(<<97>>), Str(<<>>)>>, 2),
    SetOf(<<>>), SetOf(<<I64(<<7>>), List(<<I64(<<1>>)>>)>>),
    Dict(<<>>), Dict(<<VEntry(Str(<<97>>), I64(<<7>>))>>),
    VMap("map[string]int64", <<VEntry(Str(<<97>>), I64(<<1>>)),
                               VEntry(Str(<<98>>), I64(<<2>>))>>),
    VRecord(Sym(<<97>>), List(<<>>)),
    VRecord(Str(<<97>>), List(<<I64(<<7>>), SetOf(<<>>)>>)) }

\* values that are, or hold, a nil pointer, a nil slice or a nil map
EncNils ==
  { VNilSlice("[]int64"), VNilSlice("[]byte"), VNilSlice("Set"),
    VNilMap("map[string]int64"), VNilPtr,
    List(<<I64(<<7>>), VNilPtr>>),
    SetOf(<<VNilSlice("[]interface{}")>>),
    Dict(<<VEntry(Str(<<97>>), VNilMap("map[string]int64"))>>),
    VRecord(Sym(<<97>>), List(<<VNilSlice("[]byte")>>)),
    VRecord(Sym(<<97>>), VNilSlice("[]interface{}")),
    VStruct("Struct2", <<VNilPtr, VNilPtr>>),
    VPtr(VNilSlice("[]int64")), VPtr(VNilPtr) }

EncPointers ==
  LET to == { I64(<<7>>), Str(<<97, 93>>), List(<<I64(<<7>>), Str(<<93>>)>>),
              VInt("*big.Int", TRUE, DecSucc(MaxUint64Dec)) } \cup EncStructs
  IN  {VPtr(v) : v \in to} \cup {VPtr(VPtr(v)) : v \in to}
      \cup {VPtrToInterface(v) : v \in to}

\* neither a value Encode knows: an array, and the nil interface
EncUnknown == { VArray("[2]int64", <<I64(<<1>>), I64(<<2>>)>>), NilIface }

EncValues ==
  EncScalars \cup EncStructs \cup EncContainers \cup EncNils \cup EncPointers
    \cup EncUnknown

\* a returned Encode call: the value, the error, and what it added to the
\* writer: bytes out[from + 1 .. to], Write calls log[first .. last]
EncCall(v, err, w0, w1) ==
  [v |-> v, err |-> err, from |-> Len(w0.out), to |-> Len(w1.out),
   first |-> Len(w0.log) + 1, last |-> Len(w1.log)]

\* NewEncoder on a writer, the Decoder left aside
EncInit ==
  /\ fam = "encode" /\ input = <<>> /\ dtype = "interface{}"
  /\ dinit = NilIface /\ src = NilIface /\ want = NilIface
  /\ pos = 0 /\ sc = NewScanner /\ enlen = 0 /\ n = 0 /\ stk = <<>>
  /\ arg = "none" /\ from = 0
  /\ last = [b |-> 0, oper |-> "noop", err |-> NilErr]
  /\ calls = <<>>
  /\ ops = <<>>
  /\ \E at \in 0 .. MaxFailAt, mode \in {"err", "short"} : ew = NewWriter(at, mode)
  /\ encs = <<>>
  /\ MetadataIdle
  /\ PairIdle

\* e.Encode(v), from the call to its return
EncoderEncode ==
  /\ fam = "encode"
  /\ Len(encs) < MaxEncodes
  /\ \E v \in EncValues :
       LET r == EncodeTo(v, ew) IN
       /\ ew' = r.w
       /\ encs' = Append(encs, EncCall(v, r.err, ew, r.w))
  /\ UNCHANGED <<scenario, decoder, metadata, pair>>

EncNext == EncoderEncode

EncSpec == EncInit /\ [][EncNext]_vars

(***************************************************************************)
(* The metadata cache: threads in buildCachedMetadata, each step of it one *)
(* action, sync.Map taken as atomic in Load and in LoadOrStore.            *)
(***************************************************************************)
CacheInit ==
  /\ fam = "metadata" /\ input = <<>> /\ dtype = "interface{}"
  /\ dinit = NilIface /\ src = NilIface /\ want = NilIface
  /\ pos = 0 /\ sc = NewScanner /\ enlen = 0 /\ n = 0 /\ stk = <<>>
  /\ arg = "none" /\ from = 0
  /\ last = [b |-> 0, oper |-> "noop", err |-> NilErr]
  /\ calls = <<>>
  /\ ops = <<>>
  /\ EncoderIdle
  /\ MetadataIdle
  /\ PairIdle

\* buildCachedMetadata(t) is called: metadataCache.Load(t), and the return
\* of what it found
buildCachedMetadataLoad(th) ==
  /\ fam = "metadata"
  /\ thr[th].pc = "idle"
  /\ \E t \in CachedTypes :
       thr' = [thr EXCEPT ![th] =
                 IF cache[t] # NoEntry
                 THEN [pc |-> "returned", t |-> t, ok |-> TRUE, m |-> cache[t]]
                 ELSE [pc |-> "missed", t |-> t, ok |-> FALSE, m |-> NoEntry]]
  /\ UNCHANGED <<cache, scenario, decoder, encoder, pair>>

\* buildMetadata(t), the argument of LoadOrStore
buildCachedMetadataBuild(th) ==
  /\ thr[th].pc = "missed"
  /\ thr' = [thr EXCEPT ![th].pc = "built", ![th].m = Metadata(thr[th].t, th)]
  /\ UNCHANGED <<cache, scenario, decoder, encoder, pair>>

\* metadataCache.LoadOrStore(t, m), and the return of actual
buildCachedMetadataLoadOrStore(th) ==
  /\ thr[th].pc = "built"
  /\ LET r == LoadOrStore(cache, thr[th].t, thr[th].m) IN
       /\ cache' = r.cache
       /\ thr' = [thr EXCEPT ![th].pc = "returned", ![th].m = r.actual]
  /\ UNCHANGED <<scenario, decoder, encoder, pair>>

\* the caller has used the metadata and may ask again
buildCachedMetadataAgain(th) ==
  /\ thr[th].pc = "returned"
  /\ thr' = [thr EXCEPT ![th] = [pc |-> "idle", t |-> "", ok |-> FALSE, m |-> NoEntry]]
  /\ UNCHANGED <<cache, scenario, decoder, encoder, pair>>

CacheNext ==
  \E th \in Threads :
    \/ buildCachedMetadataLoad(th)
    \/ buildCachedMetadataBuild(th)
    \/ buildCachedMetadataLoadOrStore(th)
    \/ buildCachedMetadataAgain(th)

CacheSpec == CacheInit /\ [][CacheNext]_vars

(***************************************************************************)
(* Two Decoders made by NewDecoder over one Encoding, each on a reader of  *)
(* its own.  Each owns its scanner and its frames; the countdown enlen is  *)
(* the Encoding's, and so is one for both.  Process of one byte is a step. *)
(***************************************************************************)
Decoders == {1, 2}

\* what each of the two reads, and into what
PairValues ==
  { VFloat("float32", <<63, 128, 0, 0>>),
    VFloat("float64", <<64, 9, 33, 251, 84, 68, 45, 24>>),
    I64(<<7>>),
    List(<<VFloat("float32", <<63, 128, 0, 0>>), Str(<<97>>)>>) }

PairScenarios ==
  {Plain("pair", v, IF Kind(v.t) = "Slice" THEN "interface{}" ELSE v.t) : v \in PairValues}

\* NewDecoder(enc, r), r delivering s.input
Paired(s) ==
  [input |-> s.input, dtype |-> s.dtype, dinit |-> s.dinit, want |-> s.want,
   pos |-> 0, sc |-> NewScanner, n |-> 0, stk |-> <<>>, ret |-> <<>>]

\* what Decode returned
Ret(r, end) == <<[err |-> r.err, dest |-> r.dest, to |-> end]>>

PairInit ==
  /\ fam = "pair" /\ input = <<>> /\ dtype = "interface{}"
  /\ dinit = NilIface /\ src = NilIface /\ want = NilIface
  /\ pos = 0 /\ sc = NewScanner /\ enlen = 0 /\ n = 0 /\ stk = <<>>
  /\ arg = "none" /\ from = 0
  /\ last = [b |-> 0, oper |-> "noop", err |-> NilErr]
  /\ calls = <<>>
  /\ ops = <<>>
  /\ EncoderIdle
  /\ MetadataIdle
  /\ \E s1 \in PairScenarios, s2 \in PairScenarios : pair = <<Paired(s1), Paired(s2)>>

\* the outcome of a step of run of Decoder d becomes its state
PairBecomes(d, p, sc1, r, end) ==
  pair' = [pair EXCEPT ![d].pos = p, ![d].sc = sc1, ![d].stk = r.stk, ![d].n = r.n,
                       ![d].ret = IF r.done THEN Ret(r, end) ELSE @]

\* Decode(&v) is called on Decoder d
PairDecode(d) ==
  /\ fam = "pair"
  /\ pair[d].stk = <<>> /\ pair[d].ret = <<>>
  /\ pair' = [pair EXCEPT ![d].stk =
                 <<Frame("Decode", "noop", NilIface, "noop", "", pair[d].dinit,
                         pair[d].dtype, TRUE)>>]
  /\ UNCHANGED <<scenario, decoder, encoder, metadata>>

\* run of Decoder d, one iteration: Read delivers a byte
PairRead(d) ==
  /\ pair[d].stk # <<>>
  /\ pair[d].pos < Len(pair[d].input)
  /\ LET me == pair[d]
         p == Process(me.sc, enlen, me.input[me.pos + 1])
     IN  /\ enlen' = p.enlen
         /\ IF p.err # NilErr
            THEN PairBecomes(d, me.pos + 1, p.sc, Failed(me.stk, me.n, p.err), me.pos + 1)
            ELSE PairBecomes(d, me.pos + 1, AfterHandleOp(me.stk, p.oper, p.sc),
                             handleOp(me.stk, me.n, p.oper, p.sc.buf), me.pos + 1)
  /\ UNCHANGED <<scenario, pos, sc, n, stk, arg, from, last, calls, ops, encoder, metadata>>

\* run of Decoder d, one iteration: Read returns 0, io.EOF
PairEOF(d) ==
  /\ pair[d].stk # <<>>
  /\ pair[d].pos = Len(pair[d].input)
  /\ PairBecomes(d, pair[d].pos, pair[d].sc, Failed(pair[d].stk, pair[d].n, EOFErr),
                 pair[d].pos)
  /\ UNCHANGED <<scenario, decoder, encoder, metadata>>

PairNext == \E d \in Decoders : PairDecode(d) \/ PairRead(d) \/ PairEOF(d)

PairSpec == PairInit /\ [][PairNext]_vars

(***************************************************************************)
(* Properties.                                                             *)
(***************************************************************************)
\* the k-th returned call was given a valid pointer on a Decoder that had
\* read nothing yet
Fresh(k) == calls[k].arg = "ptr" /\ calls[k].from = 0

\* C1: for every scalar v (bool, signed integer of the int64 range, string,
\* Symbol or byte string of any length, 0 included), Decode of the bytes of
\* Encode(v) on a fresh Decoder into a variable of v's type returns no error
\* and leaves the variable equal to v.
C1_ScalarRoundTrip ==
  \A k \in 1 .. Len(calls) :
    (fam = "scalar" /\ Fresh(k)) => (calls[k].err = NilErr /\ calls[k].dest = src)

\* an empty string was decoded into a string variable
C1_Witness ==
  \E k \in 1 .. Len(calls) :
    /\ fam = "scalar" /\ Fresh(k)
    /\ src = Str(<<>>)
    /\ calls[k].dest = src

\* C2: when a length prefix of value 0 is followed by its discriminator
\* byte, the scanner emits the value op on that byte and is back in
\* scanFindToken, so that the byte after it starts a new token.
C2_EmptyLengthFastPath ==
  (/\ last.err = NilErr
   /\ last.b \in {chQuote, chApos, chColon}
   /\ last.oper \in {"valStringOp", "valSymbolOp", "valByteArrOp"})
  => sc.s = "scanFindToken"

\* C3: a struct with a tagged field, written by Encode and read by Decode
\* into a struct of the same type, comes back equal.
C3_TaggedRoundTrip ==
  \A k \in 1 .. Len(calls) :
    (fam = "tagged" /\ Fresh(k)) => (calls[k].err = NilErr /\ Same(calls[k].dest, src))

\* C4: a dictionary read into a struct that has no field for one of its
\* keys: the value of that key is discarded without error, the keys that
\* match a field are stored, whether before or after it, and the call ends
\* at the close marker of the dictionary.
C4_UnknownKeyDiscarded ==
  \A k \in 1 .. Len(calls) :
    (fam = "unknown" /\ Fresh(k)) =>
      /\ calls[k].err = NilErr
      /\ Same(calls[k].dest, want)
      /\ calls[k].to = Len(input)

\* C5: a list or set of n elements read into an array of length L gives no
\* error; slot k holds the k-th element for k < min(n, L) and the zero value
\* for n <= k < L.
C5_ArrayDropAndZeroFill ==
  \A k \in 1 .. Len(calls) :
    (fam = "array" /\ Fresh(k)) => (calls[k].err = NilErr /\ Same(calls[k].dest, want))

\* C6: a Decode that returns no error has read exactly the bytes of one
\* top-level value, and none of the bytes after it.
C6_ReadsOneValue ==
  \A k \in 1 .. Len(calls) :
    (fam # "truncated" /\ Fresh(k) /\ calls[k].err = NilErr) =>
      calls[k].to = Len(Encode(src).out)

\* C7: when the reader ends inside the top-level value, Decode returns an
\* error.
C7_EOFInsideValue ==
  \A k \in 1 .. Len(calls) :
    (fam = "truncated" /\ input # <<>> /\ Fresh(k)) => calls[k].err # NilErr

\* C8: a Decode whose argument is not a pointer, or is a nil pointer,
\* returns InvalidDecodeError at once: it reads no byte, starts no run and
\* leaves the scanner, the float countdown and the offset counter as they
\* were.
C8_InvalidDestination ==
  [][arg' \in {"nilptr", "nonptr"} =>
       /\ Len(calls') = Len(calls) + 1
       /\ calls'[Len(calls')].arg = arg'
       /\ calls'[Len(calls')].err = InvalidDecodeError(dtype)
       /\ stk = <<>> /\ stk' = <<>>
       /\ UNCHANGED <<pos, sc, enlen, n>>]_vars

\* a nil pointer was rejected by a Decoder that had read bytes before
C8_Witness ==
  \E k \in 1 .. Len(calls) :
    /\ calls[k].arg = "nilptr"
    /\ calls[k].err.kind = "InvalidDecodeError"
    /\ calls[k].from > 0
    /\ sc.s # "scanFindToken"

\* C9: a list, set, dictionary or record read into an empty interface is
\* assigned to it: a list or set as the sequence of its elements, a
\* dictionary as a map, a record as a Record.
C9_ContainerIntoInterface ==
  \A k \in 1 .. Len(calls) :
    (fam = "opaque" /\ Fresh(k)) => (calls[k].err = NilErr /\ Same(calls[k].dest, want))

\* the name of the wire kind of a container
WireKind(v) ==
  IF v.t = "Set" THEN "set"
  ELSE IF v.t = "Record" THEN "record"
  ELSE IF Kind(v.t) = "Slice" THEN "list"
  ELSE "dict"

\* C10: a container read into a variable that cannot hold it makes Decode
\* return an InvalidTypeError that names the wire kind.
C10_ContainerMismatch ==
  \A k \in 1 .. Len(calls) :
    (fam = "mismatch" /\ Fresh(k)) =>
      /\ calls[k].err.kind = "InvalidTypeError"
      /\ calls[k].err.value = WireKind(src)

\* C11: a Symbol variable takes only a wire symbol and a string variable
\* takes no wire symbol: a wire string or byte string read into a Symbol,
\* and a wire symbol read into a string, return InvalidTypeError.
C11_SymbolStringDisjoint ==
  \A k \in 1 .. Len(calls) :
    (/\ fam = "crossed" /\ Fresh(k)
     /\ \/ (src.t \in {"string", "[]byte"} /\ dtype = "Symbol")
        \/ (src.t = "Symbol" /\ dtype = "string"))
    => calls[k].err.kind = "InvalidTypeError"

\* the mathematical value of an integer v is that of the wire integer w
SameNumber(v, w) == v.s = w.s /\ v.b = w.b

\* C12 as stated: a wire integer read into an empty interface is an int64
\* when its magnitude is at most 2^63 - 1 and a *big.Int when its magnitude
\* is 2^63 or more, whatever its sign.
C12_BigFromMagnitude ==
  \A k \in 1 .. Len(calls) :
    (fam = "integer" /\ dtype = "interface{}" /\ Fresh(k)) =>
      /\ calls[k].err = NilErr
      /\ SameNumber(calls[k].dest, src)
      /\ calls[k].dest.t = IF DecCmp(src.s, MaxInt64Dec) <= 0 THEN "int64" ELSE "*big.Int"

\* C12, amended: a wire integer read into an empty interface is an int64
\* when its value lies in -2^63 .. 2^63 - 1 and a *big.Int otherwise, and
\* in both cases it has the value of the wire integer.
C12_BigOutsideInt64 ==
  \A k \in 1 .. Len(calls) :
    (fam = "integer" /\ dtype = "interface{}" /\ Fresh(k)) =>
      /\ calls[k].err = NilErr
      /\ SameNumber(calls[k].dest, src)
      /\ calls[k].dest.t =
           IF DecCmp(src.s, IF src.b THEN MinInt64Mag ELSE MaxInt64Dec) <= 0
           THEN "int64" ELSE "*big.Int"

\* -2^63 was read into an empty interface as an int64
C12_Witness ==
  \E k \in 1 .. Len(calls) :
    /\ fam = "integer" /\ dtype = "interface{}" /\ Fresh(k)
    /\ src.b /\ src.s = MinInt64Mag
    /\ calls[k].dest = VInt("int64", TRUE, MinInt64Mag)

\* C13: a wire integer read into an integer variable of 8, 16, 32 or 64
\* bits, signed or unsigned, either leaves the variable holding the value
\* of the wire integer or returns an overflow InvalidTypeError; a negative
\* wire integer is never stored into an unsigned variable.
C13_ExactOrOverflow ==
  \A k \in 1 .. Len(calls) :
    (fam = "integer" /\ dtype \in IntTypes \cup UintTypes /\ Fresh(k)) =>
      /\ \/ calls[k].err = NilErr /\ calls[k].dest = VInt(dtype, src.b, src.s)
         \/ /\ calls[k].err.kind = "InvalidTypeError"
            /\ calls[k].err.value \in {"integer overflow", "unsigned integer overflow"}
      /\ (src.b /\ dtype \in UintTypes) => calls[k].err # NilErr

\* C14: every uint64 value, those above 2^63 - 1 included, written by
\* Encode and read into a uint64 variable comes back without error.
C14_Uint64RoundTrip ==
  \A k \in 1 .. Len(calls) :
    (fam = "unsigned" /\ Fresh(k)) => (calls[k].err = NilErr /\ calls[k].dest = src)

(***************************************************************************)
(* The Encoder's output.                                                   *)
(***************************************************************************)
\* the bytes the i-th returned Encode added to the writer
Written(i) == SubSeq(ew.out, encs[i].from + 1, encs[i].to)

\* the outputs of Encode of each value of vs, one after another
RECURSIVE Outputs(_)
Outputs(vs) == IF vs = <<>> THEN <<>> ELSE Encode(Head(vs)).out \o Outputs(Tail(vs))

\* the first position from i on that holds no digit
RECURSIVE DigitsEnd(_, _)
DigitsEnd(bs, i) ==
  IF i <= Len(bs) /\ IsDigit(bs[i]) THEN DigitsEnd(bs, i + 1) ELSE i

\* the number written in decimal in bs[i .. j - 1]
RECURSIVE Number(_, _, _)
Number(bs, i, j) == IF j <= i THEN 0 ELSE Number(bs, i, j - 1) * 10 + (bs[j - 1] - ch0)

CloserOf(b) ==
  IF b = chLBrack THEN chRBrack ELSE IF b = chHash THEN chDollar
  ELSE IF b = chLt THEN chGt ELSE chRBrace

\* the position after the value that starts at bs[i], its payloads skipped
\* by their lengths and its brackets paired and nested; 0 if there is none
RECURSIVE ValueEnd(_, _)
RECURSIVE ElementsEnd(_, _, _)
ValueEnd(bs, i) ==
  IF i > Len(bs) THEN 0
  ELSE IF IsDigit(bs[i]) THEN
    LET j == DigitsEnd(bs, i)
        len == Number(bs, i, j)
    IN  IF j > Len(bs) \/ bs[j] \notin {chQuote, chApos, chColon} \/ j + len > Len(bs)
        THEN 0 ELSE j + len + 1
  ELSE IF bs[i] = chI THEN
    LET d == IF i + 1 <= Len(bs) /\ bs[i + 1] = chMinus THEN i + 2 ELSE i + 1
        j == DigitsEnd(bs, d)
    IN  IF j = d \/ j > Len(bs) \/ bs[j] # chE THEN 0 ELSE j + 1
  ELSE IF bs[i] \in {chT, chF} THEN i + 1
  ELSE IF bs[i] = chBigF THEN IF i + 4 > Len(bs) THEN 0 ELSE i + 5
  ELSE IF bs[i] = chBigD THEN IF i + 8 > Len(bs) THEN 0 ELSE i + 9
  ELSE IF bs[i] \in {chLBrack, chHash, chLt, chLBrace}
  THEN ElementsEnd(bs, i + 1, CloserOf(bs[i]))
  ELSE 0

\* the position after the close marker that ends the values from bs[i] on
ElementsEnd(bs, i, close) ==
  IF i > Len(bs) THEN 0
  ELSE IF bs[i] = close THEN i + 1
  ELSE LET j == ValueEnd(bs, i) IN
       IF j = 0 THEN 0 ELSE ElementsEnd(bs, j, close)

\* bs is one value, every bracket of it closed by its own kind, in order
Balanced(bs) == ValueEnd(bs, 1) = Len(bs) + 1

\* C15: a successful Encode of a slice, a Set or a Record writes the open
\* marker, then the elements in index order (a Record: the label, then
\* the values), then the matching close marker; the output of every
\* successful Encode has its brackets balanced and nested; a string, a
\* symbol and a byte string are written as the decimal length, the
\* discriminator and exactly that many bytes.
C15_BracketsAndLengths ==
  \A i \in 1 .. Len(encs) :
    LET v == encs[i].v IN
    encs[i].err = NilErr =>
      /\ Balanced(Written(i))
      /\ (v.t \in {"[]interface{}", "[]string"}) =>
            Written(i) = <<chLBrack>> \o Outputs(v.e) \o <<chRBrack>>
      /\ v.t = "Set" => Written(i) = <<chHash>> \o Outputs(v.e) \o <<chDollar>>
      /\ v.t = "Record" =>
            Written(i) = <<chLt>> \o Outputs(<<v.e[1]>> \o v.e[2].e) \o <<chGt>>
      /\ v.t = "string" => Written(i) = FormatLen(Len(v.s)) \o <<chQuote>> \o v.s
      /\ v.t = "Symbol" => Written(i) = FormatLen(Len(v.s)) \o <<chApos>> \o v.s
      /\ v.t = "[]byte" => Written(i) = FormatLen(Len(v.s)) \o <<chColon>> \o v.s

\* a Record that holds a Set, and a string that holds a close marker, were
\* written one after the other by one Encoder
C15_Witness ==
  /\ Len(encs) = 2
  /\ encs[1].err = NilErr /\ encs[1].v = Str(<<97, 93>>)
  /\ encs[2].err = NilErr
  /\ encs[2].v = VRecord(Str(<<97>>), List(<<I64(<<7>>), SetOf(<<>>)>>))
  /\ Written(2) = <<chLt, 49, chQuote, 97, chI, 55, chE, chHash, chDollar, chGt>>

(***************************************************************************)
(* Structs, field by field.                                                *)
(***************************************************************************)
\* the name on the wire of each exported field of v, as a string, and the
\* field's value behind it, in the order of declaration
RECURSIVE ExportedOutputs(_, _)
ExportedOutputs(v, i) ==
  LET fs == StructFields(v.t) IN
  IF i > Len(fs) THEN <<>>
  ELSE IF ~fs[i].exported THEN ExportedOutputs(v, i + 1)
  ELSE LET name == IF fs[i].hasTag THEN fs[i].tag ELSE fs[i].name
       IN  FormatLen(Len(name)) \o <<chQuote>> \o name \o Encode(v.e[i]).out
             \o ExportedOutputs(v, i + 1)

\* the position of the unexported field f in Struct1
UnexportedAt == 2

\* C16: Encode of a struct that is no Record writes a dictionary of
\* exactly its exported fields in declaration order, each as the name of
\* the field, a string, and the value of the field, and writes no
\* unexported field; Decode of a dictionary into a struct never changes
\* an unexported field, neither while it runs nor when it returns.
C16_ExportedFieldsOnly ==
  /\ (fam \in {"fields", "struct", "tagged"} /\ src.t \in StructTypes) =>
        input = <<chLBrace>> \o ExportedOutputs(src, 1) \o <<chRBrace>>
  /\ fam = "fields" =>
        /\ \A k \in 1 .. Len(calls) :
              calls[k].dest.t = "Struct1" =>
                calls[k].dest.e[UnexportedAt] = dinit.e[UnexportedAt]
        /\ \A j \in 1 .. Len(stk) :
              (stk[j].tt = "Struct1" /\ stk[j].tgt.t = "Struct1") =>
                stk[j].tgt.e[UnexportedAt] = dinit.e[UnexportedAt]

\* a dictionary with a float32 under the key f, ahead of the keys I and
\* Str, was read into a Struct1, and f holds what it held
C16_Witness ==
  \E k \in 1 .. Len(calls) :
    /\ fam = "fields" /\ Fresh(k)
    /\ src.t # "Struct1" /\ Len(src.e) = 3
    /\ src.e[1] = VEntry(Str(<<chF>>), VFloat("float32", <<63, 0, 0, 0>>))
    /\ calls[k].dest.e[UnexportedAt] = HeldStruct1.e[UnexportedAt]

(***************************************************************************)
(* Nil values.                                                             *)
(***************************************************************************)
\* v, or something Encode reaches from v (an element, an exported field,
\* a field of a Record, a key or a value of a map, a pointee), is a nil
\* pointer, a nil slice or a nil map
RECURSIVE HasNil(_)
HasNil(v) ==
  LET k == Kind(v.t) IN
  IF k \in {"Slice", "Map"} \/ (k = "Ptr" /\ v.t # "*big.Int")
  THEN v.b \/ \E i \in 1 .. Len(v.e) : HasNil(v.e[i])
  ELSE IF v.t = "entry" \/ v.t = "Record" THEN HasNil(v.e[1]) \/ HasNil(v.e[2])
  ELSE IF k = "Struct"
  THEN \E i \in 1 .. Len(v.e) : StructFields(v.t)[i].exported /\ HasNil(v.e[i])
  ELSE FALSE

\* C17: Encode returns an error whenever the value, or an element, a
\* struct field, a map entry or a pointee reached from it, is a nil
\* pointer, a nil slice or a nil map; an empty slice or map that is not
\* nil is written as its two brackets and nothing else.
C17_NilIsAnError ==
  \A i \in 1 .. Len(encs) :
    LET v == encs[i].v IN
    /\ HasNil(v) => encs[i].err # NilErr
    /\ (ew.at = 0 /\ Kind(v.t) \in {"Slice", "Map"} /\ ~v.b /\ v.e = <<>> /\ v.t # "[]byte") =>
         /\ encs[i].err = NilErr
         /\ Written(i) = IF Kind(v.t) = "Map" THEN <<chLBrace, chRBrace>>
                         ELSE IF v.t = "Set" THEN <<chHash, chDollar>>
                         ELSE <<chLBrack, chRBrack>>

(***************************************************************************)
(* Writers that fail.                                                      *)
(***************************************************************************)
\* the j-th Write of the writer's life returned an error, or a count below
\* the number of bytes it was given
WriteFailed(j) ==
  /\ j = ew.at /\ j <= Len(ew.log)
  /\ ew.mode = "err" \/ ew.log[j] # <<>>

\* C18: when a Write returns an error or a count below the number of
\* bytes it was given, the Encode that made it returns an error, and that
\* Write is the last one it makes, however deep in the value it was made.
C18_FailedWriteIsLast ==
  \A i \in 1 .. Len(encs) :
    \A j \in encs[i].first .. encs[i].last :
      WriteFailed(j) => (encs[i].err # NilErr /\ encs[i].last = j)

\* the fifth Write of an Encode, of a symbol in a set in a list, came back
\* one byte short, and the Encode returned an error with two Writes left
\* unmade
C18_Witness ==
  \E i \in 1 .. Len(encs) :
    /\ encs[i].v = List(<<List(<<>>), SetOf(<<Sym(<<97>>)>>)>>)
    /\ ew.mode = "short" /\ WriteFailed(encs[i].first + 4)
    /\ ew.log[ew.at] = <<49, chApos, 97>>
    /\ encs[i].last = ew.at /\ encs[i].err # NilErr
    /\ Len(Encode(encs[i].v).out) = 9
    /\ Written(i) = <<chLBrack, chLBrack, chRBrack, chHash, 49, chApos>>

(***************************************************************************)
(* Pointers.                                                               *)
(***************************************************************************)
\* v is a pointer that Encode follows
IsPointer(v) == v.t \in {"*", "*interface{}"}

\* what the pointers lead to, the nil interface when one of them is nil
RECURSIVE Pointee(_)
Pointee(v) ==
  IF ~IsPointer(v) THEN v ELSE IF v.b THEN NilIface ELSE Pointee(v.e[1])

\* C19: Encode of a pointer that is not nil, to a value or to a pointer
\* or to an interface that holds one, writes the bytes that Encode of
\* the value writes, for every value Encode takes.
C19_PointerAsPointee ==
  \A i \in 1 .. Len(encs) :
    LET v == encs[i].v IN
    (/\ IsPointer(v) /\ ~HasNil(v)
     /\ Encode(Pointee(v)).err = NilErr
     /\ \A j \in encs[i].first .. encs[i].last : ~WriteFailed(j)) =>
      /\ encs[i].err = NilErr
      /\ Written(i) = Encode(Pointee(v)).out

\* a pointer to a pointer to a list, and a pointer to an interface that
\* holds a Struct1, were written as the list and as the struct
C19_Witness ==
  /\ Len(encs) = 2
  /\ encs[1].v = VPtr(VPtr(List(<<I64(<<7>>), Str(<<93>>)>>)))
  /\ Written(1) = <<chLBrack, chI, 55, chE, 49, chQuote, chRBrack, chRBrack>>
  /\ encs[2].v.t = "*interface{}" /\ encs[2].v.e[1].t = "Struct1"
  /\ encs[2].err = NilErr
  /\ Written(2) = Encode(encs[2].v.e[1]).out
  /\ Len(Written(2)) = 16

(***************************************************************************)
(* The metadata cache.                                                     *)
(***************************************************************************)
\* C20: threads that ask for the metadata of one struct type at once, none
\* having asked before: in every interleaving each of them receives the
\* entry the cache holds for the type, so all receive equal metadata, that
\* of the type; the cache holds one entry for the type once a caller has
\* returned; and an entry, once in the cache, is never replaced or changed.
C20_OneEntryNeverReplaced ==
  /\ [](\A th \in Threads :
          thr[th].pc = "returned" =>
            /\ thr[th].m = cache[thr[th].t]
            /\ thr[th].m # NoEntry
            /\ thr[th].m.fields = buildMetadata(thr[th].t))
  /\ [][\A t \in CachedTypes : cache[t] # NoEntry => cache'[t] = cache[t]]_vars

\* every thread missed Struct1 in the cache and built its own metadata;
\* all have returned, with the metadata built by another thread than the
\* first
C20_Witness ==
  /\ \A th \in Threads : thr[th].pc = "returned" /\ thr[th].t = "Struct1" /\ ~thr[th].ok
  /\ cache["Struct1"].by # 1
  /\ thr[1].m.by = cache["Struct1"].by
  /\ cache["Tagged"] = NoEntry

(***************************************************************************)
(* Two Decoders on one Encoding.                                           *)
(***************************************************************************)
\* Decode on a Decoder that has the Encoding to itself: what it returns
\* when it has read p bytes and stands at scanner s, countdown c, frames k
RECURSIVE RunAlone(_, _, _, _, _, _)
RunAlone(me, p, s, c, m, k) ==
  IF p = Len(me.input) THEN Ret(Failed(k, m, EOFErr), p)
  ELSE Then(Process(s, c, me.input[p + 1]), LAMBDA x :
         IF x.err # NilErr THEN Ret(Failed(k, m, x.err), p + 1)
         ELSE Then(handleOp(k, m, x.oper, x.sc.buf), LAMBDA r :
                IF r.done THEN Ret(r, p + 1)
                ELSE RunAlone(me, p + 1, AfterHandleOp(k, x.oper, x.sc), x.enlen, r.n,
                              r.stk)))

Alone(me) ==
  RunAlone(me, 0, NewScanner, 0, 0,
           <<Frame("Decode", "noop", NilIface, "noop", "", me.dinit, me.dtype, TRUE)>>)

\* C21: two Decoders made over one Encoding, each on its own reader, their
\* steps interleaved in any order: each returns the error and leaves the
\* value it returns and leaves when it runs alone, and that is the value
\* its input was encoded from.
C21_InterleavedAsAlone ==
  \A d \in Decoders :
    (fam = "pair" /\ pair[d].ret # <<>>) =>
      /\ pair[d].ret = Alone(pair[d])
      /\ pair[d].ret[1].err = NilErr
      /\ Same(pair[d].ret[1].dest, pair[d].want)

(***************************************************************************)
(* Whitespace.                                                             *)
(***************************************************************************)
\* the ops other than noop that the tokens of v stand for, in wire order
RECURSIVE OpsOf(_)
RECURSIVE OpsOfAll(_)
OpsOfAll(vs) == IF vs = <<>> THEN <<>> ELSE OpsOf(Head(vs)) \o OpsOfAll(Tail(vs))
OpsOf(v) ==
  IF v.t = "string" THEN <<"valStringOp">>
  ELSE IF v.t = "Symbol" THEN <<"valSymbolOp">>
  ELSE IF v.t = "[]byte" THEN <<"valByteArrOp">>
  ELSE IF v.t = "bool" THEN <<"valBoolop">>
  ELSE IF v.t = "float32" THEN <<"valFloat32Op">>
  ELSE IF v.t = "float64" THEN <<"valFloat64Op">>
  ELSE IF v.t \in IntTypes \cup UintTypes \cup {"*big.Int"} THEN <<"valIntOp">>
  ELSE IF v.t = "Set" THEN <<"openSetOp">> \o OpsOfAll(v.e) \o <<"closeSetOp">>
  ELSE IF Kind(v.t) = "Slice" THEN <<"openListOp">> \o OpsOfAll(v.e) \o <<"closeListOp">>
  ELSE IF Kind(v.t) = "Map"
  THEN <<"openDictOp">> \o OpsOfAll(MapEntries(v)) \o <<"closeDictOp">>
  ELSE IF v.t = "Record"
  THEN <<"openRecordOp">> \o OpsOfAll(<<v.e[1]>> \o v.e[2].e) \o <<"closeRecordOp">>
  ELSE <<"openDictOp">> \o OpsOfAll(StructEntries(v)) \o <<"closeDictOp">>

\* C22: whitespace between the tokens of an encoding changes neither the
\* ops other than noop that the scanner returns nor the value decoded;
\* and a whitespace byte is skipped (noop, no error, scanner as it was)
\* exactly when the scanner is in scanFindToken.
C22_WhitespaceBetweenTokens ==
  /\ [](\A k \in 1 .. Len(calls) :
          (fam = "spaced" /\ Fresh(k)) =>
            /\ calls[k].err = NilErr
            /\ Same(calls[k].dest, want)
            /\ (Len(calls) = 1 /\ stk = <<>>) => ops = OpsOf(src))
  /\ [][(fam \in {"spaced", "blank"} /\ pos' = pos + 1 /\ IsSpace(input[pos + 1])) =>
          ((last'.oper = "noop" /\ last'.err = NilErr /\ sc' = sc /\ enlen' = enlen)
             <=> sc.s = "scanFindToken")]_vars

\* a list in a list, whitespace ahead of every token, a blank among them
\* as the payload of a string, was read to its close marker
C22_Witness ==
  \E k \in 1 .. Len(calls) :
    /\ fam = "spaced" /\ Fresh(k) /\ Len(calls) = 1 /\ stk = <<>>
    /\ src = List(<<I64(<<7>>), List(<<Str(<<32>>)>>)>>)
    /\ input = <<10, 9, chLBrack, 10, 9, chI, 55, chE, 10, 9, chLBrack, 10, 9, 49, chQuote,
                 32, 10, 9, chRBrack, 10, 9, chRBrack>>
    /\ calls[k].to = Len(input)
    /\ ops = <<"openListOp", "valIntOp", "openListOp", "valStringOp", "closeListOp",
               "closeListOp">>

(***************************************************************************)
(* Records.                                                                *)
(***************************************************************************)
\* C23: a record decodes with the first value after the open marker as
\* Label and the values after it, up to the close marker of the record,
\* as Values: in wire order, as many as the wire has, none added; a
\* record of a label only has an empty Values; so too when the label or
\* a value is a record.
C23_RecordLabelAndValues ==
  \A k \in 1 .. Len(calls) :
    (fam = "record" /\ Fresh(k)) =>
      /\ calls[k].err = NilErr
      /\ calls[k].to = Len(input)
      /\ calls[k].dest.t = "Record"
      /\ Same(calls[k].dest.e[1], Want("interface{}", src.e[1]))
      /\ Len(calls[k].dest.e[2].e) = Len(src.e[2].e)
      /\ \A i \in 1 .. Len(src.e[2].e) :
            Same(calls[k].dest.e[2].e[i], Want("interface{}", src.e[2].e[i]))

\* a record whose label is a record of a label and a value, and whose
\* values are a record of a label only and an integer, was read
C23_Witness ==
  \E k \in 1 .. Len(calls) :
    /\ fam = "record" /\ Fresh(k) /\ dtype = "Record"
    /\ src.e[1] = VRecord(Sym(<<98>>), List(<<I64(<<1>>)>>))
    /\ src.e[2].e = <<VRecord(Sym(<<98>>), List(<<>>)), I64(<<7>>)>>
    /\ calls[k].err = NilErr
    /\ Len(calls[k].dest.e[2].e) = 2
    /\ calls[k].dest.e[2].e[1].e[2].e = <<>>
    /\ calls[k].dest.e[2].e[2] = I64(<<7>>)

(***************************************************************************)
(* Slices with a length and a capacity of their own.                       *)
(***************************************************************************)
\* the capacities a slice of capacity c can have after growing
GrowCap(c) == IF c + c \div 2 < 4 THEN 4 ELSE c + c \div 2
GrownCaps(c) == {c, GrowCap(c), GrowCap(GrowCap(c)), GrowCap(GrowCap(GrowCap(c)))}

\* C24: a list or set of n elements decoded into a slice of any length
\* and capacity leaves the slice with exactly n elements, the k-th the
\* k-th of the wire, also when n is 0; the capacity is the old one or
\* what growing by max(4, cap + cap/2) makes of it.
C24_SliceLengthAndGrowth ==
  \A k \in 1 .. Len(calls) :
    (fam = "regrow" /\ Fresh(k)) =>
      /\ calls[k].err = NilErr
      /\ calls[k].dest.t = dtype
      /\ ~calls[k].dest.b
      /\ Len(calls[k].dest.e) = Len(src.e)
      /\ \A i \in 1 .. Len(src.e) :
            Same(calls[k].dest.e[i], Want(ElemT(dtype), src.e[i]))
      /\ Len(src.e) > 0 =>
            /\ calls[k].dest.c >= Len(src.e)
            /\ calls[k].dest.c \in GrownCaps(dinit.c)
      /\ Len(src.e) > dinit.c => calls[k].dest.c # dinit.c

\* a list of five elements was read into a slice of three elements and
\* capacity four, which grew to six
C24_Witness ==
  /\ fam = "regrow" /\ Len(calls) = 1 /\ Fresh(1)
  /\ Len(dinit.e) = 3 /\ dinit.c = 4
  /\ Len(src.e) = 5
  /\ calls[1].err = NilErr
  /\ Len(calls[1].dest.e) = 5
  /\ calls[1].dest.c = 6

\* a list of no element was read into a slice of three elements
C24_WitnessEmpty ==
  /\ fam = "regrow" /\ Len(calls) = 1 /\ Fresh(1)
  /\ Len(dinit.e) = 3 /\ Len(src.e) = 0
  /\ calls[1].err = NilErr /\ calls[1].dest.e = <<>>
(***************************************************************************)
(* Dictionaries into maps.                                                 *)
(***************************************************************************)
\* the keys of the entries of a map
KeysOf(m) == {Norm(m.e[j].e[1]) : j \in 1 .. Len(m.e)}

\* C25: a dictionary decoded into a map leaves the map allocated and
\* holding, besides what it held, exactly one entry per pair of the wire:
\* a key that the dictionary closes after has no entry.
C25_OneEntryPerPair ==
  \A k \in 1 .. Len(calls) :
    (fam \in {"dict", "dangling"} /\ Fresh(k) /\ calls[k].err = NilErr) =>
      /\ ~calls[k].dest.b
      /\ KeysOf(calls[k].dest) = KeysOf(dinit) \cup KeysOf(src)
      /\ \A j \in 1 .. Len(src.e) : \E i \in 1 .. Len(calls[k].dest.e) :
            Same(calls[k].dest.e[i],
                 VEntry(Want(KeyT(dtype), src.e[j].e[1]),
                        Want(ElemT(dtype), src.e[j].e[2])))

\* the same of the dictionaries whose every key has a value
DictsOfPairs ==
  fam = "dangling" \/ C25_OneEntryPerPair
(***************************************************************************)
(* Brackets.                                                               *)
(***************************************************************************)
\* C26: Decode returns an error when a container is closed by the close
\* marker of another kind, and when a close marker comes with no
\* container open.
C26_UnmatchedCloseIsError ==
  \A k \in 1 .. Len(calls) :
    (fam = "unmatched" /\ Fresh(k)) => calls[k].err # NilErr
(***************************************************************************)
(* Payload bytes.                                                          *)
(***************************************************************************)
PayloadStates == {"scanSymbol", "scanString", "scanByteArr"}
PayloadOp(s) ==
  IF s = "scanSymbol" THEN "valSymbolOp"
  ELSE IF s = "scanString" THEN "valStringOp" ELSE "valByteArrOp"

\* the discriminator after a length of at least 1: the digits leave the
\* buffer and become the count of payload bytes
PayloadBegins ==
  (/\ sc.s = "scanTokenLen" /\ pos' = pos + 1 /\ sc'.s \in PayloadStates
   /\ \E j \in 1 .. Len(sc.buf) : sc.buf[j] # 48) =>
    /\ sc'.buf = <<>>
    /\ sc'.nlen = StripZeros([j \in 1 .. Len(sc.buf) |-> sc.buf[j] - 48])
    /\ last'.oper = "noop"

\* a payload byte: appended whatever it is; before the last one the state
\* stays and no op is emitted, on the last one the value op is emitted and
\* the state is that of finding a token
PayloadByte ==
  (sc.s \in PayloadStates /\ sc.nlen # <<0>> /\ pos' = pos + 1) =>
    /\ last'.err = NilErr
    /\ IF sc.nlen = <<1>>
       THEN /\ last'.oper = PayloadOp(sc.s)
            /\ sc'.s = "scanFindToken"
       ELSE /\ last'.oper = "noop"
            /\ sc'.s = sc.s
            /\ sc'.buf = Append(sc.buf, input[pos + 1])
            /\ sc'.nlen = DecPred(sc.nlen)

\* C27: after the discriminator of a string, symbol or byte string of
\* length n >= 1, each of the next n bytes is appended as it is, whatever
\* its value; the state stays that of the payload for n-1 bytes, and on
\* the n-th the value op is emitted and the state is that of finding a
\* token; the value decoded is the n bytes.
C27_PayloadVerbatim ==
  /\ [](\A k \in 1 .. Len(calls) :
          (fam = "payload" /\ Fresh(k)) =>
            /\ calls[k].err = NilErr
            /\ calls[k].to = Len(input)
            /\ Same(calls[k].dest, want))
  /\ [][PayloadBegins /\ PayloadByte]_vars

\* a string of the twelve bytes 1:"'ie[ {<$F was read into an interface
C27_Witness ==
  /\ fam = "payload" /\ Len(calls) = 1 /\ Fresh(1)
  /\ dtype = "interface{}"
  /\ calls[1].err = NilErr
  /\ calls[1].dest.t = "string"
  /\ calls[1].dest.s = <<49, 58, 34, 39, 105, 101, 91, 32, 123, 60, 36, 70>>
(***************************************************************************)
(* Floats.                                                                 *)
(***************************************************************************)
FloatStates == {"scanFloat32", "scanFloat64"}
FloatOp(s)  == IF s = "scanFloat32" THEN "valFloat32Op" ELSE "valFloat64Op"

\* the introducer of a float: not buffered, the countdown set to the
\* width of the float
FloatBegins ==
  (sc.s = "scanFindToken" /\ pos' = pos + 1 /\ sc'.s \in FloatStates) =>
    /\ input[pos + 1] = (IF sc'.s = "scanFloat32" THEN chBigF ELSE chBigD)
    /\ enlen' = (IF sc'.s = "scanFloat32" THEN 4 ELSE 8)
    /\ sc'.buf = sc.buf
    /\ last'.oper = "noop"

\* a byte of a float: buffered whatever it is; the countdown goes down by
\* one; the value op is emitted on the byte that makes it zero
FloatByte ==
  (sc.s \in FloatStates /\ pos' = pos + 1) =>
    /\ enlen >= 1
    /\ last'.err = NilErr
    /\ enlen' = enlen - 1
    /\ IF enlen = 1
       THEN /\ last'.oper = FloatOp(sc.s)
            /\ sc'.s = "scanFindToken"
       ELSE /\ last'.oper = "noop"
            /\ sc'.s = sc.s
            /\ sc'.buf = Append(sc.buf, input[pos + 1])

\* C28: with one scanner on the encoding, the 4 bytes after the
\* introducer of a float32 (8 after that of a float64) are buffered as
\* they are, the value op is emitted on the last of them and the state
\* is then that of finding a token with the countdown at zero; the float
\* read is those bytes; a float scan function called with the countdown
\* at zero returns an error.
C28_FloatCountdown ==
  /\ \A b \in 0 .. 255 : /\ scanFloat32Token(b, 0).r.err # NilErr
                         /\ scanFloat64Token(b, 0).r.err # NilErr
  /\ [](\A k \in 1 .. Len(calls) :
          (fam = "float" /\ Fresh(k)) =>
            /\ calls[k].err = NilErr
            /\ calls[k].to = Len(input)
            /\ Same(calls[k].dest, want))
  /\ [][FloatBegins /\ FloatByte]_vars

\* the float64 of the bytes D F space newline [ } 0x00 0xff was read, the
\* scanner is finding a token and the countdown is zero
C28_Witness ==
  /\ fam = "float" /\ Len(calls) = 1 /\ Fresh(1)
  /\ dtype = "float64"
  /\ calls[1].err = NilErr
  /\ calls[1].dest.s = <<68, 70, 32, 10, 91, 125, 0, 255>>
  /\ sc.s = "scanFindToken" /\ enlen = 0
(***************************************************************************)
(* The buffer after a container.                                           *)
(***************************************************************************)
\* Decode has returned nil on reading the close marker of a container
ClosedContainer ==
  /\ stk = <<>> /\ Len(calls) = 1 /\ Fresh(1)
  /\ calls[1].err = NilErr
  /\ last.oper \in {"closeListOp", "closeDictOp", "closeSetOp", "closeRecordOp"}

\* C29: after the last close op of a balanced stream the scanner is
\* finding a token and its buffer is empty, the accessor having been
\* called after every value op, those of discarded elements too.
C29_BufferEmptyAfterClose ==
  (fam \in {"unknown", "array", "regrow", "record", "dict"} /\ ClosedContainer) =>
    /\ sc.s = "scanFindToken"
    /\ sc.buf = <<>>

\* the same of the streams no element of which is discarded
KeptElements ==
  fam \in {"unknown", "array"} \/ C29_BufferEmptyAfterClose
(***************************************************************************)
(* Integer tokens without digits.                                          *)
(***************************************************************************)
\* a minus sign read after the first byte of the integer is an error
MinusOnlyFirst ==
  (sc.s = "scanInt" /\ pos' = pos + 1 /\ input[pos + 1] = chMinus) =>
    last'.err # NilErr

\* C30: an integer token without a digit, ie or i-e, makes Decode return
\* an error whatever the destination, which keeps what it held; a minus
\* sign is accepted only as the first byte after the introducer.
C30_NoDigitsIsAnError ==
  /\ [](\A k \in 1 .. Len(calls) :
          (fam = "nodigit" /\ Fresh(k)) =>
            /\ calls[k].err # NilErr
            /\ calls[k].dest = dinit)
  /\ [][MinusOnlyFirst]_vars

\* i-e was read into an int64 that held 9: an error, and the 9 is there
C30_Witness ==
  /\ fam = "nodigit" /\ Len(calls) = 1 /\ Fresh(1)
  /\ input = <<chI, chMinus, chE>>
  /\ dtype = "int64" /\ dinit.s = <<9>>
  /\ calls[1].to = 3
  /\ calls[1].err # NilErr
  /\ calls[1].dest.s = <<9>>
(***************************************************************************)
(* The offset counter.                                                     *)
(***************************************************************************)
\* C31: the offset counter of the Decoder is at least the number of
\* bytes it has consumed from the reader.
C31_OffsetCountsBytes == n >= pos

\* the counter never runs ahead of the reader
OffsetAtMostBytes == n <= pos

\* the counter is the number of bytes consumed while no container marker
\* has been read and no Decode has returned an error
OffsetOfScalars ==
  (/\ \A k \in 1 .. Len(calls) : calls[k].err = NilErr
   /\ \A j \in 1 .. pos : input[j] \notin {chLBrack, chRBrack, chLBrace, chRBrace, chHash,
                                         chDollar, chLt, chGt})
    => n = pos
(***************************************************************************)
(* Errors of the scanner.                                                  *)
(***************************************************************************)
\* Process returns an error for the byte read: the scanner is as it was,
\* and Decode returns the error, having handled no op, counted no byte
\* and stored nothing
ProcessError ==
  (/\ pos' = pos + 1
   /\ last'.err # NilErr
   /\ ~(sc.s = "scanTokenLen" /\ input[pos + 1] \in {chApos, chQuote, chColon})) =>
    /\ sc' = sc
    /\ stk' = <<>>
    /\ n' = n
    /\ ops' = ops
    /\ Len(calls') = Len(calls) + 1
    /\ calls'[Len(calls')].err = last'.err
    /\ calls'[Len(calls')].to = pos + 1
    /\ calls'[Len(calls')].dest = Unwind(stk)

\* C32: when Process returns an error (a byte that starts no token, a
\* byte that is neither digit nor discriminator in a length, a byte that
\* is neither digit nor terminator in an integer, a float byte with the
\* countdown at zero), the scan state is unchanged and the byte is not
\* buffered, and Decode returns that error without handling an op for
\* the byte.
C32_ProcessErrorLeavesScanner ==
  /\ \A b \in 0 .. 255 : \A s \in {"scanFloat32", "scanFloat64"} :
       LET scf == [s |-> s, nlen |-> <<0>>, buf |-> <<63>>]
           p   == Process(scf, 0, b)
       IN  p.err # NilErr /\ p.sc = scf
  /\ [][ProcessError]_vars

\* i7-e was read into an int64: the minus sign is an error, the scanner
\* is still in the integer with 7 in its buffer, and Decode returned the
\* error
C32_Witness ==
  /\ input = <<chI, 55, chMinus, chE>> /\ dtype = "int64"
  /\ Len(calls) = 1 /\ Fresh(1)
  /\ pos = 3
  /\ last.err # NilErr /\ calls[1].err = last.err
  /\ sc.s = "scanInt" /\ sc.buf = <<55>>
  /\ dinit.s = <<9>> /\ calls[1].dest.s = <<9>>

\* a byte that starts no token, and a space inside a length, were read
ProcessErrorInFindToken ==
  /\ Len(calls) = 1 /\ last.err # NilErr /\ sc.s = "scanFindToken" /\ calls[1].to = pos
ProcessErrorInTokenLen ==
  /\ Len(calls) = 1 /\ last.err # NilErr /\ sc.s = "scanTokenLen" /\ sc.buf # <<>>
  /\ calls[1].to = pos /\ last.b = 32
(***************************************************************************)
(* Termination.                                                            *)
(***************************************************************************)
\* an iteration of the loop of run: it consumes a byte or Decode returns
Progresses ==
  (stk # <<>>) => \/ pos' = pos + 1
                  \/ stk' = <<>> /\ Len(calls') = Len(calls) + 1 /\ pos' = pos

\* while a Decode runs the reader has a next Read to answer: a byte, no
\* byte, or the end of the input
CanRead == (stk # <<>>) => pos <= Len(input)

\* a Read of 0 bytes and no error: Decode returns an error
ShortIsAnError ==
  (stk # <<>> /\ pos < Len(input) /\ input[pos + 1] = NoByte) =>
    /\ stk' = <<>>
    /\ calls'[Len(calls')].err # NilErr
    /\ pos' = pos

\* C33: every Decode returns: each iteration of the loop of run, and so
\* of each loop over the elements of a container, consumes a byte of the
\* finite input or ends the call, and a Read that returns 0 bytes and no
\* error ends the call with an error.
C33_DecodeTerminates ==
  /\ (stk # <<>>) ~> (stk = <<>>)
  /\ []CanRead
  /\ [][Progresses /\ ShortIsAnError]_vars

\* a list was being read into an array of one element, the second
\* element being discarded, when Read returned 0 bytes: Decode returned
\* an error
C33_Witness ==
  /\ fam = "short" /\ dtype = "[1]int64"
  /\ input = <<chLBrack, chI, 49, chE, 49, NoByte>>
  /\ Len(calls) = 1 /\ Fresh(1)
  /\ calls[1].err # NilErr
  /\ calls[1].to = 5
====
